---------------------------- MODULE Spec2Model ----------------------------
(***************************************************************************)
(* A model of the core of pokedexcli:                                      *)
(*   - the response cache (internal/pokecache) and the way the API client  *)
(*     embeds it (internal/pokeapi);                                       *)
(*   - the durable store (savePokedexData / loadPokedexData);              *)
(*   - the auto-save policy (UpdatePokedexAndSave, autoSaveIfEnabled, the  *)
(*     inline policy of commandRelease) and the commands that drive it.    *)
(***************************************************************************)
EXTENDS Integers, Sequences, FiniteSets, TLC

(***************************************************************************)
(* Bounds of the model.                                                    *)
(***************************************************************************)
\* the cache clock runs from 0 to MaxTime
MaxTime == 7
\* the cache is built with an interval (ttl) of 1..MaxTTL clock units
MaxTTL == 2

\* a caught record is one of MaxHeight records per name
MaxHeight == 1
\* saveinterval is given a value in 1..MaxInterval
MaxInterval == 2
\* no more than MaxRun mutations are recorded between two settings changes
MaxRun == 3
\* a line typed at the prompt has no more than MaxLine runes after the command
MaxLine == 3
\* the counter (or a copy of it a goroutine has loaded) and the handlers
\* that are recording a change add up to no more than MaxChanges
MaxChanges == 2

None == "none"

(***************************************************************************)
(* Response cache: state.                                                  *)
(***************************************************************************)
CacheKeys == {"", "key1"}
CacheVals == {"val1", "val2"}

VARIABLES
    now,        \* wall clock (time.Now), one unit per Tick
    ttl,        \* the interval NewCache was called with
    cache,      \* Cache.cache: key -> [val, createdAt], a partial function
    mu,         \* Cache.mu of the Cache NewCache allocated: its holder
    muCopy,     \* Cache.mu of the copy stored in Client.cache: its holder
    viaClient,  \* the foreground calls go through Client.cache (a copy)
    fgpc,       \* foreground goroutine: "idle" or "locked" (inside Add/Get)
    fgop,       \* the call the foreground goroutine is inside
    rpc,        \* reapLoop goroutine: "sleep" or "reaping"
    nextTick,   \* the time of the ticker's next tick
    thrown,     \* the runtime stopped the process (fatal error on a map race)
    hist,       \* history: per key, the value and time of its last Add
    fresh,      \* history: per key, what happened to it at this instant
    lastGet     \* history: what the last Get of this instant returned

cacheVars == <<now, ttl, cache, mu, muCopy, viaClient, fgpc, fgop, rpc,
               nextTick, thrown, hist, fresh, lastGet>>

(***************************************************************************)
(* Durable store and shared state: state.                                  *)
(***************************************************************************)
\* two instances of the program sharing one home directory
Procs == {"A", "B"}
\* item keys, in the order encoding/json writes map keys (sorted)
NameOrder == <<"eevee", "pikachu">>
Names == {NameOrder[i] : i \in 1..Len(NameOrder)}
Heights == 1..MaxHeight

VARIABLES
    disk,             \* the files of the home directory: path -> [exists, bytes]
    flock,            \* the ".lock" file's flock: [excl, shared]
    pc,               \* per process: where it is
    ret,              \* per process: the caller savePokedexData /
                      \* loadPokedexData returns to
    pokedex,          \* cfg.pokedex
    pokedexNil,       \* cfg.pokedex is the nil map (reads as empty, no insertion)
    cursor,           \* cfg.nextLocationURL, prevLocationURL, mapViewedThisSession
    autoSaveEnabled,  \* cfg.autoSaveEnabled
    autoSaveInterval, \* cfg.autoSaveInterval
    changesSinceSync, \* cfg.changesSinceSync
    data,             \* savePokedexData's local: the marshalled bytes
    woff,             \* os.WriteFile: tokens written so far
    committed,        \* history: the bytes of the last Save whose rename succeeded
    committedMap,     \* history: the collection that Save serialised
    committedCursor,  \* history: the cursors of the process when that Save ran
    startLoad,        \* history: how the Load at the start of process A ended
    lastLoad,         \* history: per process, how its Load ended
    lastSave,         \* history: per process, how its last Save ended
    rec,              \* history: the last recorded change of process A
    run               \* history: changes and policy saves of process A since
                      \* its settings were last set

storeVars == <<disk, flock, pc, ret, pokedex, pokedexNil, cursor,
               autoSaveEnabled, autoSaveInterval, changesSinceSync, data, woff,
               committed, committedMap, committedCursor, startLoad, lastLoad,
               lastSave, rec, run>>

(***************************************************************************)
(* API client (internal/pokeapi): state.                                   *)
(***************************************************************************)
VARIABLES
    impl,      \* the file the client's fetch methods were built from
    origin,    \* the origin: its answer to a GET of each URL
    cpc,       \* the fetch: "idle", or before its "get", "do" or "add"
    creq,      \* the method called, the URL of the request and its decoder
    cbody,     \* the local body: the bytes io.ReadAll returned
    cres,      \* what the last call returned: [val, err]
    chit,      \* history: c.cache.Get of this request returned ok
    cnet,      \* history: the calls of c.httpClient.Do the last call made
    stored     \* history: per URL, when a fetch last stored its bytes

clientVars == <<impl, origin, cpc, creq, cbody, cres, chit, cnet, stored>>

(***************************************************************************)
(* The keys of the collection, letter by letter: state.                    *)
(***************************************************************************)
VARIABLES
    keys,       \* the keys of cfg.pokedex, each a sequence of runes
    savedKeys,  \* the keys of the "pokedex" object of the save file
    looked      \* history: the last CheckPokemonExists, its argument and result

nameVars == <<keys, savedKeys, looked>>

(***************************************************************************)
(* Handlers run by several goroutines on one config: state.                *)
(***************************************************************************)
VARIABLES
    gopc,      \* per goroutine: the function it is in and its next instruction
    goret,     \* per goroutine: where savePokedexData returns to
    local,     \* per goroutine: its locals [n, shouldSave, err]
    mutex,     \* cfg.mutex: [w, r], the writer and the readers holding it
    fileLock,  \* the flock of the ".lock" file: [excl, shared]
    cmu,       \* the mutex of the Cache and of its copy in the Client
    sync,      \* cfg.changesSinceSync, autoSaveEnabled, autoSaveInterval
    tally      \* history: the changes recorded, counted modulo the interval;
               \* a sweep has returned

(***************************************************************************)
(* commandEvolve and savePokedexData on one collection: state.             *)
(***************************************************************************)
VARIABLES
    owned,     \* cfg.pokedex, the map the goroutines share
    epc,       \* per goroutine: where it is in commandEvolve / savePokedexData
    eloc,      \* per goroutine: its locals
    fatal      \* the runtime has ended the process

evoVars == <<owned, epc, eloc, fatal>>

goVars == <<gopc, goret, local, mutex, fileLock, cmu, sync, tally, evoVars>>

vars == <<cacheVars, storeVars, clientVars, nameVars, goVars>>

NoHist == [val |-> None, at |-> 0, overwrote |-> FALSE]
NoGet == [key |-> None, val |-> None, found |-> FALSE, swept |-> FALSE]
NoOp == [op |-> None, key |-> None, val |-> None]

\* NewCache: an empty map, the reapLoop goroutine started with a new ticker.
\* NewClient: the Cache is copied by value into the Client (map shared,
\* mutex duplicated).
InitCache ==
    /\ now = 0
    /\ ttl \in 1..MaxTTL
    /\ cache = [k \in {} |-> 0]
    /\ mu = "free"
    /\ muCopy = "free"
    /\ viaClient \in BOOLEAN
    /\ fgpc = "idle"
    /\ fgop = NoOp
    /\ rpc = "sleep"
    /\ nextTick = ttl
    /\ thrown = FALSE
    /\ hist = [k \in CacheKeys |-> NoHist]
    /\ fresh = [k \in CacheKeys |-> "no"]
    /\ lastGet = NoGet

(***************************************************************************)
(* Response cache: operations.                                             *)
(***************************************************************************)
\* c.cache[key] = cacheEntry{val, createdAt: time.Now().UTC()}
AddEntryKeepOld(m, k, v, t) ==
    IF k \in DOMAIN m THEN m
    ELSE [x \in DOMAIN m \cup {k} |-> IF x = k THEN [val |-> v, createdAt |-> t] ELSE m[x]]

AddEntry(m, k, v, t) ==
    [x \in DOMAIN m \cup {k} |-> IF x = k THEN [val |-> v, createdAt |-> t] ELSE m[x]]

\* value, ok := c.cache[key]; return value.val, ok
GetEntryChecksAge(m, k) ==
    IF k \in DOMAIN m /\ m[k].createdAt >= now - ttl
    THEN [val |-> m[k].val, found |-> TRUE]
    ELSE [val |-> None, found |-> FALSE]

GetEntry(m, k) ==
    IF k \in DOMAIN m THEN [val |-> m[k].val, found |-> TRUE]
    ELSE [val |-> None, found |-> FALSE]

\* v.createdAt.Before(timeAgo), timeAgo = now - interval
ExpiredAtTtl(e, t, interval) == e.createdAt <= t - interval

ExpiredLate(e, t, interval) == e.createdAt < t - 2 * interval

ExpiredInverted(e, t, interval) == e.createdAt > t - interval

Expired(e, t, interval) == e.createdAt < t - interval

\* the map after one reap pass at time t
ReapedFirstOnly(m, t, interval) ==
    LET old == {k \in DOMAIN m : m[k].createdAt < t - interval}
    IN IF old = {} THEN m
       ELSE [x \in DOMAIN m \ {CHOOSE k \in old : TRUE} |-> m[x]]

Reaped(m, t, interval) ==
    [x \in {k \in DOMAIN m : ~Expired(m[k], t, interval)} |-> m[x]]

\* the mutex the foreground's Add/Get lock: the Client's copy, or the
\* Cache's own when the *Cache is used directly
FgHolds == IF viaClient THEN muCopy = "fg" ELSE mu = "fg"
FgMutexFree == IF viaClient THEN muCopy = "free" ELSE mu = "free"

\* Add / Get: c.mu.Lock()
FgLock(op, k, v) ==
    /\ ~thrown
    /\ fgpc = "idle"
    /\ FgMutexFree
    /\ fgpc' = "locked"
    /\ fgop' = [op |-> op, key |-> k, val |-> v]
    /\ IF viaClient THEN muCopy' = "fg" /\ mu' = mu
                    ELSE mu' = "fg" /\ muCopy' = muCopy
    /\ UNCHANGED <<now, ttl, cache, viaClient, rpc, nextTick, thrown, hist, fresh, lastGet>>

FgUnlock ==
    IF viaClient THEN muCopy' = "free" /\ mu' = mu
                 ELSE mu' = "free" /\ muCopy' = muCopy

\* Add: the map write, then the deferred Unlock
AddBody ==
    /\ ~thrown
    /\ fgpc = "locked"
    /\ fgop.op = "Add"
    /\ LET k == fgop.key
           v == fgop.val
       IN /\ cache' = AddEntry(cache, k, v, now)
          /\ hist' = [hist EXCEPT ![k] =
                        [val |-> v,
                         at |-> now,
                         overwrote |-> /\ k \in DOMAIN cache
                                      /\ cache[k].val # v
                                      /\ cache[k].createdAt < now]]
          /\ fresh' = [fresh EXCEPT ![k] = "added"]
          /\ lastGet' = IF lastGet.key = k THEN NoGet ELSE lastGet
    /\ FgUnlock
    /\ fgpc' = "idle"
    /\ fgop' = NoOp
    /\ UNCHANGED <<now, ttl, viaClient, rpc, nextTick, thrown>>

\* Get: the map read, then the deferred Unlock
GetBody ==
    /\ ~thrown
    /\ fgpc = "locked"
    /\ fgop.op = "Get"
    /\ LET r == GetEntry(cache, fgop.key)
       IN lastGet' = [key |-> fgop.key, val |-> r.val, found |-> r.found,
                       swept |-> fresh[fgop.key] = "swept"]
    /\ FgUnlock
    /\ fgpc' = "idle"
    /\ fgop' = NoOp
    /\ UNCHANGED <<now, ttl, cache, viaClient, rpc, nextTick, thrown, hist, fresh>>

\* reapLoop: a tick arrives on ticker.C; reap: c.mu.Lock()
ReapLock ==
    /\ ~thrown
    /\ rpc = "sleep"
    /\ now = nextTick
    /\ mu = "free"
    /\ mu' = "reaper"
    /\ rpc' = "reaping"
    /\ nextTick' = nextTick + ttl
    /\ UNCHANGED <<now, ttl, cache, muCopy, viaClient, fgpc, fgop, thrown, hist, fresh, lastGet>>

\* reap: the range-and-delete loop, then the deferred Unlock
ReapBody ==
    /\ ~thrown
    /\ rpc = "reaping"
    /\ cache' = Reaped(cache, now, ttl)
    /\ fresh' = [k \in CacheKeys |-> IF fresh[k] = "no" THEN "no" ELSE "swept"]
    /\ mu' = "free"
    /\ rpc' = "sleep"
    /\ UNCHANGED <<now, ttl, muCopy, viaClient, fgpc, fgop, nextTick, thrown, hist, lastGet>>

\* A foreground call and the reap pass are inside the map at the same time.
MapRace == fgpc = "locked" /\ rpc = "reaping"

\* The Go runtime detects the unsynchronised map access and ends the
\* process ("fatal error: concurrent map ..."); detection is best effort,
\* so the race may also go unnoticed (AddBody/GetBody/ReapBody go on).
Throw ==
    /\ ~thrown
    /\ MapRace
    /\ thrown' = TRUE
    /\ UNCHANGED <<now, ttl, cache, mu, muCopy, viaClient, fgpc, fgop, rpc,
                   nextTick, hist, fresh, lastGet>>

\* Time passes. The ticker fires every ttl; receiving the tick and the reap
\* pass take no time on the model's clock.
CacheTick ==
    /\ ~thrown
    /\ now < MaxTime
    /\ now < nextTick
    /\ rpc = "sleep"
    /\ now' = now + 1
    /\ fresh' = [k \in CacheKeys |-> "no"]
    /\ lastGet' = NoGet
    /\ UNCHANGED <<ttl, cache, mu, muCopy, viaClient, fgpc, fgop, rpc,
                   nextTick, thrown, hist>>

\* Get(k) as it would return in the current state
Get(k) == GetEntry(cache, k)

NextCache ==
    \/ \E k \in CacheKeys, v \in CacheVals : FgLock("Add", k, v) /\ UNCHANGED <<storeVars, clientVars, nameVars, goVars>>
    \/ \E k \in CacheKeys : FgLock("Get", k, None) /\ UNCHANGED <<storeVars, clientVars, nameVars, goVars>>
    \/ AddBody /\ UNCHANGED <<storeVars, clientVars, nameVars, goVars>>
    \/ GetBody /\ UNCHANGED <<storeVars, clientVars, nameVars, goVars>>
    \/ ReapLock /\ UNCHANGED <<storeVars, clientVars, nameVars, goVars>>
    \/ ReapBody /\ UNCHANGED <<storeVars, clientVars, nameVars, goVars>>
    \/ Throw /\ UNCHANGED <<storeVars, clientVars, nameVars, goVars>>
    \/ CacheTick /\ UNCHANGED <<storeVars, clientVars, nameVars, goVars>>

(***************************************************************************)
(* API client: requests, responses and decoding.                           *)
(***************************************************************************)
\* the two generations of the fetch methods in the source
Impls == {"part_026", "pokemon_stats_requests.go"}

\* baseURL + "/pokemon/" + pokemon
PokemonURL == "https://pokeapi.co/api/v2/pokemon/pikachu"
\* pokemonData.Species.URL, as the origin writes it
SpeciesURL == "https://pokeapi.co/api/v2/pokemon-species/25/"
\* baseURL + "/pokemon-species/" + pokemon
SpeciesByNameURL == "https://pokeapi.co/api/v2/pokemon-species/pikachu"
\* baseURL + "/location-area?offset=0&limit=20"
LocationURL == "https://pokeapi.co/api/v2/location-area?offset=0&limit=20"
\* the URLs the methods of one generation request
URLsOf(i) ==
    IF i = "part_026" THEN {PokemonURL, SpeciesURL, LocationURL}
    ELSE {PokemonURL, SpeciesByNameURL, LocationURL}

\* response bodies: a JSON document with the fields the decoders read, or
\* bytes that are not JSON
PokemonBody == [json |-> TRUE, name |-> "pikachu", species |-> SpeciesURL, capture |-> None]
SpeciesBody == [json |-> TRUE, name |-> "pikachu", species |-> None, capture |-> "190"]
OtherBody == [json |-> TRUE, name |-> "pikachu", species |-> None, capture |-> None]
ListBody == [json |-> TRUE, name |-> "canalave-city-area", species |-> None, capture |-> None]
NotJson == [json |-> FALSE, name |-> None, species |-> None, capture |-> None]

\* what the origin answers: the transport fails, or a status and a body
Answer(st, b) == [fails |-> FALSE, status |-> st, body |-> b]
NoAnswer == [fails |-> TRUE, status |-> 0, body |-> NotJson]
\* the fixed answers an origin may give to each URL
Answers(u) ==
    IF u = PokemonURL
    THEN {Answer(200, PokemonBody), Answer(200, NotJson), Answer(404, NotJson), NoAnswer}
    ELSE IF u = LocationURL
    THEN {Answer(200, ListBody), Answer(500, NotJson)}
    ELSE {Answer(200, SpeciesBody), Answer(200, OtherBody), Answer(200, NotJson),
          Answer(404, NotJson)}

\* a result: the value and the error chain (outermost message first)
\* the zero value of the response types
Zero == [name |-> None, species |-> None, capture |-> None]
NoRes == [val |-> Zero, err |-> << >>]
Val(v) == [val |-> v, err |-> << >>]
Err(e) == [val |-> Zero, err |-> e]
\* fmt.Errorf(msg + ": %w", err)
Wrap(msg, r) == Err(<<msg>> \o r.err)

\* the request a method starts with
NoReq == [m |-> None, u |-> None, as |-> None]
Methods == {"GetPokemonData", "GetPokemonCaptureRate", "ListLocationAreas"}

\* the first request of method m: fullURL and the type it decodes into
FirstReq(m) ==
    IF m = "GetPokemonData" THEN [m |-> m, u |-> PokemonURL, as |-> "pokemon"]
    ELSE IF m = "ListLocationAreas" THEN [m |-> m, u |-> LocationURL, as |-> "location"]
    ELSE IF impl = "part_026" THEN [m |-> m, u |-> PokemonURL, as |-> "pokemon"]
    ELSE [m |-> m, u |-> SpeciesByNameURL, as |-> "capture"]

\* the generation of the method that issues request q: ListLocationAreas
\* returns on a hit in every file that defines it
Gen(q) == IF q.m = "ListLocationAreas" THEN "part_026" ELSE impl

\* the value a decoded document gives
Extract(as, b) ==
    IF as = "pokemon" THEN Val([Zero EXCEPT !.name = b.name, !.species = b.species])
    ELSE IF as = "location" THEN Val([Zero EXCEPT !.name = b.name])
    ELSE IF as = "capture"
    THEN Val([Zero EXCEPT !.capture = IF b.capture = None THEN "0" ELSE b.capture])
    ELSE IF b.capture = None THEN Err(<<"missing capture rate in species data">>)
    ELSE Val([Zero EXCEPT !.capture = b.capture])

\* the message a failed json.Unmarshal of cached bytes is wrapped in
CachedMsg(as) ==
    IF as = "pokemon" THEN "error unmarshaling cached pokemon data"
    ELSE IF as = "location" THEN "error unmarshaling cached location data"
    ELSE "error unmarshaling cached species data"

\* the hit branch: json.Unmarshal(data, &resp) and the return
HitResult(q, b) ==
    IF ~b.json THEN Err(<<CachedMsg(q.as), "json">>)
    ELSE Extract(q.as, b)

\* the miss branch after io.ReadAll: json.Unmarshal(body, &resp) and the return
MissResult(q, b) ==
    IF ~b.json
    THEN (IF Gen(q) = "part_026" THEN Err(<<"error unmarshaling response", "json">>)
          ELSE Err(<<"json">>))
    ELSE Extract(q.as, b)

\* resp.StatusCode < 200 || resp.StatusCode > 299  /  resp.StatusCode > 399
BadStatus(q, st) ==
    IF Gen(q) = "part_026" THEN st < 200 \/ st > 299 ELSE st > 399

\* the error returned for a bad status
StatusErr(q, st) ==
    IF Gen(q) # "part_026" THEN Err(<<"bad status received">>)
    ELSE IF st = 404 /\ q.as # "location" THEN Err(<<"not found", "HTTP 404">>)
    ELSE Err(<<"API error", "HTTP error">>)

\* the error returned when c.httpClient.Do fails
DoErr(q) ==
    IF Gen(q) = "part_026" THEN Err(<<"Failed to connect to the Pokemon API", "net">>)
    ELSE Err(<<"net">>)

(***************************************************************************)
(* API client: the fetch methods.                                          *)
(***************************************************************************)
InitClient ==
    /\ impl \in Impls
    /\ origin \in {f \in [URLsOf(impl) -> UNION {Answers(u) : u \in URLsOf(impl)}] :
                      \A u \in URLsOf(impl) : f[u] \in Answers(u)}
    /\ cpc = "idle"
    /\ creq = NoReq
    /\ cbody = NotJson
    /\ cres = NoRes
    /\ chit = FALSE
    /\ cnet = 0
    /\ stored = [u \in URLsOf(impl) |-> -1]

\* a request returns r: to the caller of the method, or to
\* GetPokemonCaptureRate, which goes on to request the species URL
Return(r) ==
    IF creq.m = "GetPokemonCaptureRate" /\ creq.as = "pokemon"
    THEN IF r.err # << >>
         THEN /\ cres' = Wrap("error fetching pokemon data", r)
              /\ cpc' = "idle"
              /\ creq' = creq
         ELSE /\ creq' = [creq EXCEPT !.u = r.val.species, !.as = "species"]
              /\ cpc' = "get"
              /\ cres' = cres
    ELSE /\ cres' = r
         /\ cpc' = "idle"
         /\ creq' = creq

\* the REPL calls cfg.pokeapiClient.<m>(...)
FetchCall(m) ==
    /\ ~thrown
    /\ cpc = "idle"
    /\ cpc' = "get"
    /\ creq' = FirstReq(m)
    /\ cres' = NoRes
    /\ cbody' = NotJson
    /\ chit' = FALSE
    /\ cnet' = 0
    /\ UNCHANGED <<impl, origin, stored, cacheVars>>

\* data, ok := c.cache.Get(fullURL) and the branch on ok
FetchGet ==
    /\ ~thrown
    /\ cpc = "get"
    /\ LET r == GetEntry(cache, creq.u)
       IN /\ chit' = r.found
          /\ IF r.found /\ Gen(creq) = "part_026"
             THEN Return(HitResult(creq, r.val))
             ELSE IF r.found /\ ~r.val.json
             THEN Return(Err(<<"json">>))
             ELSE cpc' = "do" /\ UNCHANGED <<creq, cres>>
    /\ UNCHANGED <<impl, origin, cbody, cnet, stored, cacheVars>>

\* resp, err := c.httpClient.Do(req), the status check and io.ReadAll
FetchDoStoresAnyStatus ==
    /\ ~thrown
    /\ cpc = "do"
    /\ cnet < 2
    /\ cnet' = cnet + 1
    /\ LET a == origin[creq.u]
       IN IF a.fails
          THEN Return(DoErr(creq)) /\ cbody' = cbody
          ELSE cpc' = "add" /\ cbody' = a.body /\ UNCHANGED <<creq, cres>>
    /\ UNCHANGED <<impl, origin, chit, stored, cacheVars>>

FetchDo ==
    /\ ~thrown
    /\ cpc = "do"
    /\ cnet < 2
    /\ cnet' = cnet + 1
    /\ LET a == origin[creq.u]
       IN IF a.fails
          THEN Return(DoErr(creq)) /\ cbody' = cbody
          ELSE IF BadStatus(creq, a.status)
          THEN Return(StatusErr(creq, a.status)) /\ cbody' = cbody
          ELSE IF Gen(creq) # "part_026" /\ ~a.body.json
          THEN Return(MissResult(creq, a.body)) /\ cbody' = cbody
          ELSE cpc' = "add" /\ cbody' = a.body /\ UNCHANGED <<creq, cres>>
    /\ UNCHANGED <<impl, origin, chit, stored, cacheVars>>

\* c.cache.Add(fullURL, body), json.Unmarshal(body, &resp) and the return
FetchAdd ==
    /\ ~thrown
    /\ cpc = "add"
    /\ cache' = AddEntry(cache, creq.u, cbody, now)
    /\ stored' = [stored EXCEPT ![creq.u] = now]
    /\ Return(MissResult(creq, cbody))
    /\ UNCHANGED <<impl, origin, cbody, chit, cnet>>
    /\ UNCHANGED <<now, ttl, mu, muCopy, viaClient, fgpc, fgop, rpc, nextTick,
                   thrown, hist, fresh, lastGet>>

\* The fetch's Get or Add locks the mutex of the Client's copy of the Cache
\* while the reap pass holds the mutex of the original: both are inside the
\* same map, and the runtime may end the process.
FetchRace ==
    /\ ~thrown
    /\ cpc \in {"get", "add"}
    /\ rpc = "reaping"
    /\ thrown' = TRUE
    /\ UNCHANGED <<now, ttl, cache, mu, muCopy, viaClient, fgpc, fgop, rpc,
                   nextTick, hist, fresh, lastGet, clientVars>>

NextClient ==
    \/ \E m \in Methods : FetchCall(m) /\ UNCHANGED <<storeVars, nameVars, goVars>>
    \/ FetchGet /\ UNCHANGED <<storeVars, nameVars, goVars>>
    \/ FetchDo /\ UNCHANGED <<storeVars, nameVars, goVars>>
    \/ FetchAdd /\ UNCHANGED <<storeVars, nameVars, goVars>>
    \/ FetchRace /\ UNCHANGED <<storeVars, nameVars, goVars>>
    \/ ReapLock /\ UNCHANGED <<storeVars, clientVars, nameVars, goVars>>
    \/ ReapBody /\ UNCHANGED <<storeVars, clientVars, nameVars, goVars>>
    \/ CacheTick /\ UNCHANGED <<storeVars, clientVars, nameVars, goVars>>

\* the result of method m of a client whose cache never holds an entry
NoCacheReq(q) ==
    LET a == origin[q.u]
    IN IF a.fails THEN DoErr(q)
       ELSE IF BadStatus(q, a.status) THEN StatusErr(q, a.status)
       ELSE MissResult(q, a.body)

NoCache(m) ==
    LET q == FirstReq(m)
        r == NoCacheReq(q)
    IN IF m = "GetPokemonCaptureRate" /\ q.as = "pokemon"
       THEN IF r.err # << >> THEN Wrap("error fetching pokemon data", r)
            ELSE NoCacheReq([q EXCEPT !.u = r.val.species, !.as = "species"])
       ELSE r

(***************************************************************************)
(* Names: the REPL's words and the API format.                             *)
(***************************************************************************)
\* the runes a line is typed from
Runes == {"a", "A", "e_acute", "-", " ", "!"}
Lines == UNION {[1..n -> Runes] : n \in 0..MaxLine}

\* strings.ToLower, rune by rune
ToLowerRune(r) == IF r = "A" THEN "a" ELSE r
ToLower(s) == [i \in 1..Len(s) |-> ToLowerRune(s[i])]

\* strings.Fields(s): the words between runs of white space
RECURSIVE Fields(_)
Fields(s) ==
    IF s = << >> THEN << >>
    ELSE IF Head(s) = " " THEN Fields(Tail(s))
    ELSE LET n == IF \E i \in 1..Len(s) : s[i] = " "
                  THEN (CHOOSE i \in 1..Len(s) :
                           s[i] = " " /\ \A j \in 1..(i - 1) : s[j] # " ") - 1
                  ELSE Len(s)
         IN <<SubSeq(s, 1, n)>> \o Fields(SubSeq(s, n + 1, Len(s)))

\* strings.Join(words, sep)
RECURSIVE Join(_, _)
Join(words, sep) ==
    IF words = << >> THEN << >>
    ELSE IF Len(words) = 1 THEN words[1]
    ELSE words[1] \o <<sep>> \o Join(Tail(words), sep)

\* strings.ReplaceAll(s, old, new), old and new one rune each
ReplaceAll(s, old, new) == [i \in 1..Len(s) |-> IF s[i] = old THEN new ELSE s[i]]

\* cleanInput(text): the lowercase words of the line
CleanInput(text) ==
    LET words == Fields(text)
    IN [i \in 1..Len(words) |-> ToLower(words[i])]

\* the rune survives ConvertToAPIFormat's filter: a letter, a digit, a
\* space or a hyphen
Kept(r) == r \in {"a", "A", "e", "-", " "}

\* ConvertToAPIFormat(formattedName)
ConvertToAPIFormat(formattedName) ==
    LET s1 == ReplaceAll(formattedName, "e_acute", "e")
        s2 == SelectSeq(s1, Kept)
        s3 == ToLower(s2)
        s4 == Join(Fields(s3), " ")
    IN ReplaceAll(s4, " ", "-")

\* params[0] of a handler: the first word of a line, as cleanInput gives it
Params == {CleanInput(line)[1] : line \in {l \in Lines : CleanInput(l) # << >>}}

\* FormatPokemonInput(input).APIFormat, for every parameter the REPL can pass
APIFormat == [p \in Params |-> ConvertToAPIFormat(p)]

\* the names the API has a Pokemon for, and the species each evolves into
ApiNames == {<<"a">>, <<"a", "-", "e">>}
EvolvesInto(n) == IF n = <<"a">> THEN <<"a", "-", "e">> ELSE << >>

\* CheckPokemonExists(cfg, pokemonName): the key found and whether one was
CheckPokemonExists(ks, pokemonName) ==
    LET api == ConvertToAPIFormat(pokemonName)
    IN IF api \in ks THEN [key |-> api, exists |-> TRUE]
       ELSE IF \E k \in ks : ConvertToAPIFormat(k) = api
       THEN [key |-> CHOOSE k \in ks : ConvertToAPIFormat(k) = api, exists |-> TRUE]
       ELSE [key |-> api, exists |-> FALSE]

NoLooked == [arg |-> << >>, key |-> << >>, exists |-> FALSE, done |-> FALSE]

InitNames ==
    /\ keys = {}
    /\ savedKeys = {}
    /\ looked = NoLooked

\* commandCatch(cfg, params): params[0] in API format is looked up at the
\* API; the Pokemon caught is stored under that name
NameCatchStoresParam(param) ==
    /\ APIFormat[param] \in ApiNames
    /\ keys' = keys \cup {param}
    /\ looked' = NoLooked
    /\ UNCHANGED savedKeys

NameCatch(param) ==
    /\ APIFormat[param] \in ApiNames
    /\ keys' = keys \cup {APIFormat[param]}
    /\ looked' = NoLooked
    /\ UNCHANGED savedKeys

\* commandEvolve(cfg, params): the key CheckPokemonExists found is deleted
\* and the evolved species' name, as the API gives it, is inserted
NameEvolve(param) ==
    /\ LET r == CheckPokemonExists(keys, APIFormat[param])
       IN /\ r.exists
          /\ EvolvesInto(r.key) # << >>
          /\ keys' = (keys \ {r.key}) \cup {EvolvesInto(r.key)}
    /\ looked' = NoLooked
    /\ UNCHANGED savedKeys

\* commandRelease(cfg, params): the key found is deleted
NameRelease(param) ==
    /\ LET r == CheckPokemonExists(keys, APIFormat[param])
       IN /\ r.exists
          /\ keys' = keys \ {r.key}
    /\ looked' = NoLooked
    /\ UNCHANGED savedKeys

\* GetPokemonIfExists(cfg, params), of the commands that only look a name up
NameLookup(param) ==
    /\ LET r == CheckPokemonExists(keys, APIFormat[param])
       IN looked' = [arg |-> param, key |-> r.key, exists |-> r.exists, done |-> TRUE]
    /\ UNCHANGED <<keys, savedKeys>>

\* a Save that went through: the map's keys are the document's
NameSave ==
    /\ savedKeys' = keys
    /\ looked' = NoLooked
    /\ UNCHANGED keys

\* the program is started again: Load assigns the document's map
NameLoad ==
    /\ keys' = savedKeys
    /\ looked' = NoLooked
    /\ UNCHANGED savedKeys

NextNames ==
    \/ \E param \in Params : NameCatch(param) /\ UNCHANGED <<cacheVars, storeVars, clientVars, goVars>>
    \/ \E param \in Params : NameEvolve(param) /\ UNCHANGED <<cacheVars, storeVars, clientVars, goVars>>
    \/ \E param \in Params : NameRelease(param) /\ UNCHANGED <<cacheVars, storeVars, clientVars, goVars>>
    \/ \E param \in Params : NameLookup(param) /\ UNCHANGED <<cacheVars, storeVars, clientVars, goVars>>
    \/ NameSave /\ UNCHANGED <<cacheVars, storeVars, clientVars, goVars>>
    \/ NameLoad /\ UNCHANGED <<cacheVars, storeVars, clientVars, goVars>>

(***************************************************************************)
(* Handlers run by several goroutines on one config.                       *)
(* Each function is the sequence of its lock operations, of its accesses   *)
(* to the shared state and of its disk I/O; "to" is where a jump goes.     *)
(***************************************************************************)
Gs == {"g1", "g2"}

I(op) == [op |-> op, to |-> 0]
J(op, to) == [op |-> op, to |-> to]

\* savePokedexData: file lock (or timeout), snapshot under the read lock,
\* Marshal, WriteFile and Rename, deferred fileLock.Unlock
SaveCode ==
    << J("flock", 7), I("rlock"), I("read"), I("runlock"), I("io"),
       I("funlock") >>

\* loadPokedexData: Stat, shared file lock (or timeout), ReadFile and
\* Unmarshal, assignment under the write lock, deferred fileLock.Unlock
LoadCodeLockFirst ==
    << I("io"), I("lock"), J("frlock", 7), I("io"), I("write"), I("funlock"),
       I("unlock") >>

LoadCode ==
    << I("io"), J("frlock", 8), I("io"), I("lock"), I("write"), I("unlock"),
       I("funlock") >>

\* commandCatch: the API calls (cache Get), the insert under the write lock,
\* then UpdatePokedexAndSave: count under the write lock, Save outside it
CatchCodeDeferredUnlock ==
    << I("clock"), I("cunlock"),
       I("lock"), I("write"), I("unlock"),
       I("lock"), I("count"),
       J("ifshould", 11), J("ifenabled", 11), J("call", 11),
       I("unlock") >>

CatchCode ==
    << I("clock"), I("cunlock"),
       I("lock"), I("write"), I("unlock"),
       I("lock"), I("count"), I("unlock"),
       J("ifshould", 12), J("ifenabled", 12), J("call", 12) >>

\* commandRelease: lookup, delete, changesSinceSync++, the threshold test,
\* autoSaveIfEnabled and the reset, none of them under a lock
ReleaseCode ==
    << I("read"), I("write"),
       I("ld"), I("st"),
       J("test", 9), J("ifenabled", 8), J("call", 9),
       I("reset") >>

\* commandNext: mapViewedThisSession, the cursor under the read lock, the
\* API call with cfg.nextLocationURL, the cursors under the write lock
NextCode ==
    << I("read"),
       I("rlock"), I("read"), I("runlock"),
       I("read"), I("clock"), I("cunlock"),
       I("lock"), I("write"), I("unlock") >>

\* commandReset: the collection replaced, then savePokedexData
ResetCode == << I("write"), J("call", 3) >>

Handlers == {"catch", "release", "next", "reset", "load"}
Recording == {"catch", "release"}

Code(fn) ==
    CASE fn = "catch" -> CatchCode
      [] fn = "release" -> ReleaseCode
      [] fn = "next" -> NextCode
      [] fn = "reset" -> ResetCode
      [] fn = "load" -> LoadCode
      [] fn = "save" -> SaveCode

GoIdle == [fn |-> None, at |-> 0]
NoLocal == [n |-> 0, shouldSave |-> FALSE, err |-> FALSE]

Running(g) == gopc[g].fn # None
AtEnd(g) == Running(g) /\ gopc[g].at > Len(Code(gopc[g].fn))
\* the instruction goroutine g executes next
Instr(g) ==
    IF Running(g) /\ ~AtEnd(g) THEN Code(gopc[g].fn)[gopc[g].at] ELSE I(None)

Step(g) == [gopc EXCEPT ![g].at = @ + 1]
Jump(g) == [gopc EXCEPT ![g].at = Instr(g).to]

\* the instructions that read, and that assign, a field of the config
ReadOps == {"read", "ld", "test", "ifenabled"}
WriteOps == {"write", "count", "st", "reset"}

HoldsMutex(g) == mutex.w = g \/ g \in mutex.r
HoldsFile(g) == fileLock.excl = g \/ g \in fileLock.shared
\* the mutex the API client's cache calls lock
FgMu == IF viaClient THEN "copy" ELSE "cache"

InitGo ==
    /\ gopc = [g \in Gs |-> GoIdle]
    /\ goret = [g \in Gs |-> GoIdle]
    /\ local = [g \in Gs |-> NoLocal]
    /\ mutex = [w |-> None, r |-> {}]
    /\ fileLock = [excl |-> None, shared |-> {}]
    /\ cmu = [cache |-> None, copy |-> None]
    /\ sync \in [changesSinceSync : {0}, autoSaveEnabled : BOOLEAN,
                 autoSaveInterval : 1..MaxInterval]
    /\ tally = [changes |-> 0, swept |-> FALSE]

\* goroutine g is inside a handler that records a change
IsRecording(g) ==
    \/ gopc[g].fn \in Recording
    \/ gopc[g].fn = "save" /\ goret[g].fn \in Recording

\* a goroutine calls a handler
GoCall(g, h) ==
    /\ ~Running(g)
    /\ h \in Recording =>
          LET recording == Cardinality({r \in Gs : IsRecording(r)})
          IN /\ sync.changesSinceSync + recording < MaxChanges
             /\ \A r \in Gs : local[r].n + recording < MaxChanges
    /\ gopc' = [gopc EXCEPT ![g] = [fn |-> h, at |-> 1]]
    /\ UNCHANGED local
    /\ tally' = IF h \in Recording
                THEN [tally EXCEPT !.changes = (@ + 1) % sync.autoSaveInterval]
                ELSE tally
    /\ UNCHANGED <<goret, mutex, fileLock, cmu, sync>>

\* the function returns: savePokedexData to its caller, a handler to the REPL
GoReturn(g) ==
    /\ AtEnd(g)
    /\ IF gopc[g].fn = "save"
       THEN /\ gopc' = [gopc EXCEPT ![g] =
                          IF local[g].err
                          THEN [goret[g] EXCEPT !.at = Code(goret[g].fn)[goret[g].at].to]
                          ELSE [goret[g] EXCEPT !.at = @ + 1]]
            /\ goret' = [goret EXCEPT ![g] = GoIdle]
            /\ UNCHANGED local
       ELSE /\ gopc' = [gopc EXCEPT ![g] = GoIdle]
            /\ local' = [local EXCEPT ![g] = NoLocal]
            /\ UNCHANGED goret
    /\ UNCHANGED <<mutex, fileLock, cmu, sync, tally>>

\* savePokedexData(cfg) is called
GoSave(g) ==
    /\ Instr(g).op = "call"
    /\ goret' = [goret EXCEPT ![g] = gopc[g]]
    /\ gopc' = [gopc EXCEPT ![g] = [fn |-> "save", at |-> 1]]
    /\ UNCHANGED <<local, mutex, fileLock, cmu, sync, tally>>

\* cfg.mutex: Lock, Unlock, RLock, RUnlock
GoMutex(g) ==
    /\ \/ /\ Instr(g).op = "lock"
          /\ mutex.w = None /\ mutex.r = {}
          /\ mutex' = [mutex EXCEPT !.w = g]
       \/ /\ Instr(g).op = "unlock"
          /\ mutex' = [mutex EXCEPT !.w = None]
       \/ /\ Instr(g).op = "rlock"
          /\ mutex.w = None
          /\ mutex' = [mutex EXCEPT !.r = @ \cup {g}]
       \/ /\ Instr(g).op = "runlock"
          /\ mutex' = [mutex EXCEPT !.r = @ \ {g}]
    /\ gopc' = Step(g)
    /\ UNCHANGED <<goret, local, fileLock, cmu, sync, tally>>

\* the file lock: TryLockContext, TryRLockContext, Unlock
GoFileLock(g) ==
    /\ \/ /\ Instr(g).op = "flock"
          /\ fileLock.excl = None /\ fileLock.shared = {}
          /\ fileLock' = [fileLock EXCEPT !.excl = g]
       \/ /\ Instr(g).op = "frlock"
          /\ fileLock.excl = None
          /\ fileLock' = [fileLock EXCEPT !.shared = @ \cup {g}]
       \/ /\ Instr(g).op = "funlock"
          /\ fileLock' = [excl |-> IF fileLock.excl = g THEN None ELSE fileLock.excl,
                          shared |-> fileLock.shared \ {g}]
    /\ gopc' = Step(g)
    /\ UNCHANGED <<goret, local, mutex, cmu, sync, tally>>

\* the context of TryLockContext / TryRLockContext runs out while another
\* goroutine holds the file lock: the function returns the error
GoTimeout(g) ==
    /\ \/ Instr(g).op = "flock" /\ (fileLock.excl # None \/ fileLock.shared # {})
       \/ Instr(g).op = "frlock" /\ fileLock.excl # None
    /\ gopc' = Jump(g)
    /\ local' = [local EXCEPT ![g].err = TRUE]
    /\ UNCHANGED <<goret, mutex, fileLock, cmu, sync, tally>>

\* Cache.Get / Cache.Add of an API call: Lock and the deferred Unlock
GoCache(g) ==
    /\ \/ /\ Instr(g).op = "clock"
          /\ cmu[FgMu] = None
          /\ cmu' = [cmu EXCEPT ![FgMu] = g]
       \/ /\ Instr(g).op = "cunlock"
          /\ cmu' = [cmu EXCEPT ![FgMu] = None]
    /\ gopc' = Step(g)
    /\ UNCHANGED <<goret, local, mutex, fileLock, sync, tally>>

\* an access to the collection, the cursors or the settings, or disk I/O
GoAccess(g) ==
    /\ Instr(g).op \in {"read", "write", "io"}
    /\ gopc' = Step(g)
    /\ UNCHANGED <<goret, local, mutex, fileLock, cmu, sync, tally>>

\* UpdatePokedexAndSave: changesSinceSync++, the test and the reset
GoCount(g) ==
    /\ Instr(g).op = "count"
    /\ LET c == sync.changesSinceSync + 1
           shouldSave == c >= sync.autoSaveInterval
       IN /\ sync' = [sync EXCEPT !.changesSinceSync = IF shouldSave THEN 0 ELSE c]
          /\ local' = [local EXCEPT ![g].shouldSave = shouldSave]
    /\ gopc' = Step(g)
    /\ UNCHANGED <<goret, mutex, fileLock, cmu, tally>>

\* "if shouldSave", and the test of autoSaveIfEnabled
GoIf(g) ==
    /\ \/ /\ Instr(g).op = "ifshould"
          /\ gopc' = IF local[g].shouldSave THEN Step(g) ELSE Jump(g)
       \/ /\ Instr(g).op = "ifenabled"
          /\ gopc' = IF sync.autoSaveEnabled THEN Step(g) ELSE Jump(g)
       \/ /\ Instr(g).op = "test"
          /\ gopc' = IF sync.changesSinceSync >= sync.autoSaveInterval
                     THEN Step(g) ELSE Jump(g)
    /\ UNCHANGED <<goret, local, mutex, fileLock, cmu, sync, tally>>

\* commandRelease: cfg.changesSinceSync++ without a lock, a load and a store
GoIncrement(g) ==
    /\ \/ /\ Instr(g).op = "ld"
          /\ local' = [local EXCEPT ![g].n = sync.changesSinceSync]
          /\ UNCHANGED sync
       \/ /\ Instr(g).op = "st"
          /\ sync' = [sync EXCEPT !.changesSinceSync = local[g].n + 1]
          /\ UNCHANGED local
    /\ gopc' = Step(g)
    /\ UNCHANGED <<goret, mutex, fileLock, cmu, tally>>

\* commandRelease: cfg.changesSinceSync = 0
GoReset(g) ==
    /\ Instr(g).op = "reset"
    /\ sync' = [sync EXCEPT !.changesSinceSync = 0]
    /\ gopc' = Step(g)
    /\ UNCHANGED <<goret, local, mutex, fileLock, cmu, tally>>

\* reapLoop: a tick, reap locks the Cache's mutex
SweepLock ==
    /\ cmu.cache = None
    /\ cmu' = [cmu EXCEPT !.cache = "reaper"]
    /\ UNCHANGED <<gopc, goret, local, mutex, fileLock, sync, tally>>

\* reap returns: the deferred Unlock
SweepUnlock ==
    /\ cmu.cache = "reaper"
    /\ cmu' = [cmu EXCEPT !.cache = None]
    /\ tally' = [tally EXCEPT !.swept = TRUE]
    /\ UNCHANGED <<gopc, goret, local, mutex, fileLock, sync>>

\* one step of goroutine g
GoStep(g) ==
    \/ \E h \in Handlers : GoCall(g, h)
    \/ GoReturn(g)
    \/ GoSave(g)
    \/ GoMutex(g)
    \/ GoFileLock(g)
    \/ GoTimeout(g)
    \/ GoCache(g)
    \/ GoAccess(g)
    \/ GoCount(g)
    \/ GoIf(g)
    \/ GoIncrement(g)
    \/ GoReset(g)

\* a step of goroutine g inside the handler it is running
GoOn(g) ==
    \/ GoReturn(g)
    \/ GoSave(g)
    \/ GoMutex(g)
    \/ GoFileLock(g)
    \/ GoTimeout(g)
    \/ GoCache(g)
    \/ GoAccess(g)
    \/ GoCount(g)
    \/ GoIf(g)
    \/ GoIncrement(g)
    \/ GoReset(g)

Quiet == \A g \in Gs : ~Running(g)

NextGo ==
    \/ \E g \in Gs, h \in Handlers : GoCall(g, h) /\ UNCHANGED <<cacheVars, storeVars, clientVars, nameVars, evoVars>>
    \/ \E g \in Gs : GoReturn(g) /\ UNCHANGED <<cacheVars, storeVars, clientVars, nameVars, evoVars>>
    \/ \E g \in Gs : GoSave(g) /\ UNCHANGED <<cacheVars, storeVars, clientVars, nameVars, evoVars>>
    \/ \E g \in Gs : GoMutex(g) /\ UNCHANGED <<cacheVars, storeVars, clientVars, nameVars, evoVars>>
    \/ \E g \in Gs : GoFileLock(g) /\ UNCHANGED <<cacheVars, storeVars, clientVars, nameVars, evoVars>>
    \/ \E g \in Gs : GoTimeout(g) /\ UNCHANGED <<cacheVars, storeVars, clientVars, nameVars, evoVars>>
    \/ \E g \in Gs : GoCache(g) /\ UNCHANGED <<cacheVars, storeVars, clientVars, nameVars, evoVars>>
    \/ \E g \in Gs : GoAccess(g) /\ UNCHANGED <<cacheVars, storeVars, clientVars, nameVars, evoVars>>
    \/ \E g \in Gs : GoCount(g) /\ UNCHANGED <<cacheVars, storeVars, clientVars, nameVars, evoVars>>
    \/ \E g \in Gs : GoIf(g) /\ UNCHANGED <<cacheVars, storeVars, clientVars, nameVars, evoVars>>
    \/ \E g \in Gs : GoIncrement(g) /\ UNCHANGED <<cacheVars, storeVars, clientVars, nameVars, evoVars>>
    \/ \E g \in Gs : GoReset(g) /\ UNCHANGED <<cacheVars, storeVars, clientVars, nameVars, evoVars>>
    \/ SweepLock /\ UNCHANGED <<cacheVars, storeVars, clientVars, nameVars, evoVars>>
    \/ SweepUnlock /\ UNCHANGED <<cacheVars, storeVars, clientVars, nameVars, evoVars>>

(***************************************************************************)
(* Durable store: the document and its encoding.                           *)
(***************************************************************************)
NoRec == [name |-> None, height |-> 0]
\* make(map[string]pokeapi.PokemonDataResp)
EmptyPokedex == [k \in {} |-> NoRec]
\* a file that does not exist
Absent == [exists |-> FALSE, bytes |-> << >>]

\* getSaveFilePath()
SaveFilePath == ".pokedexcli_save.json"
\* tempFilePath := saveFilePath + ".tmp"
TempFilePathIsSaveFile == SaveFilePath

TempFilePath == ".pokedexcli_save.json.tmp"

\* getLockFilePath(saveFilePath): saveFilePath + ".lock"
LockFilePath == ".pokedexcli_save.json.lock"

Paths == {SaveFilePath, ".pokedexcli_save.json.tmp", LockFilePath}
\* the save file and the temporary file as they are on disk
file == disk[SaveFilePath]
tmp == disk[TempFilePath]
\* nextLocationURL = nil, prevLocationURL = nil, mapViewedThisSession = false
NoCursor == [next |-> None, prev |-> None, viewed |-> FALSE]

\* the tokens of the JSON text: one per entry of "pokedex", then
\* "lastSaved" and the closing brace
PairTok(k, r) == [t |-> "pair", name |-> k, rec |-> r, at |-> 0]
EndTok(at) == [t |-> "end", name |-> None, rec |-> NoRec, at |-> at]
\* what a write past the end of a file leaves in between
HoleTok == [t |-> "hole", name |-> None, rec |-> NoRec, at |-> 0]

\* "pokedex":null, the collection field of a document without a collection
NullTok == [t |-> "null", name |-> None, rec |-> NoRec, at |-> 0]

\* json.Marshal of the Pokedex field: the entries in sorted key order
RECURSIVE MarshalPairs(_, _)
MarshalPairs(m, i) ==
    IF i > Len(NameOrder) THEN << >>
    ELSE (IF NameOrder[i] \in DOMAIN m
          THEN <<PairTok(NameOrder[i], m[NameOrder[i]])>>
          ELSE << >>) \o MarshalPairs(m, i + 1)

\* json.Marshal(saveData)
Marshal(m, at) == MarshalPairs(m, 1) \o <<EndTok(at)>>

\* json.Marshal(saveData) when saveData.Pokedex is the nil map
MarshalNil(at) == <<NullTok, EndTok(at)>>

\* the document is well formed and its "pokedex" is null (or absent):
\* json.Unmarshal leaves saveData.Pokedex nil
UnmarshalNil(b) == Len(b) = 2 /\ b[1].t = "null" /\ b[2].t = "end"

\* json.Unmarshal(data, &saveData) returns no error
UnmarshalOk(b) ==
    \/ UnmarshalNil(b)
    \/ /\ Len(b) >= 1
       /\ b[Len(b)].t = "end"
       /\ \A i \in 1..(Len(b) - 1) : b[i].t = "pair"

\* saveData.Pokedex after json.Unmarshal: a repeated key keeps its last value
UnmarshalPokedexFieldsLost(b) ==
    IF UnmarshalNil(b) THEN EmptyPokedex
    ELSE [k \in {b[i].name : i \in 1..(Len(b) - 1)} |-> [name |-> k, height |-> 0]]

UnmarshalPokedex(b) ==
    LET n == Len(b) - 1
        last(k) == CHOOSE i \in 1..n :
                      b[i].name = k /\ \A j \in 1..n : b[j].name = k => j <= i
    IN IF UnmarshalNil(b) THEN EmptyPokedex
       ELSE [k \in {b[i].name : i \in 1..n} |-> b[last(k)].rec]

\* a write of one token at token offset off of a file holding b
WriteAt(b, off, tok) ==
    IF off < Len(b) THEN [b EXCEPT ![off + 1] = tok]
    ELSE b \o [i \in 1..(off - Len(b)) |-> HoleTok] \o <<tok>>

\* the directory after os.Rename(from, to): one atomic replacement
Renamed(d, from, to) ==
    IF from = to THEN d
    ELSE [f \in DOMAIN d |-> IF f = to THEN d[from] ELSE IF f = from THEN Absent ELSE d[f]]

\* the directory after the lock attempt opened the lock file (O_CREATE)
LockFileOpened(d) == [d EXCEPT ![LockFilePath] = [exists |-> TRUE, bytes |-> << >>]]

\* the map after cfg.pokedex[k] = r
Inserted(m, k, r) == [x \in DOMAIN m \cup {k} |-> IF x = k THEN r ELSE m[x]]
\* the map after delete(cfg.pokedex, k)
Deleted(m, k) == [x \in DOMAIN m \ {k} |-> m[x]]

(***************************************************************************)
(* Durable store: the file lock (flock on the ".lock" file).               *)
(***************************************************************************)
\* TryLockContext succeeds: nobody holds the lock in any mode
LockAlwaysFree(l) == TRUE

LockFree(l) == l.excl = None /\ l.shared = {}

\* TryRLockContext succeeds: nobody holds the lock exclusively
RLockAlwaysFree(l) == TRUE

RLockFree(l) == l.excl = None

\* fileLock.Unlock(), and what the OS does when the holder dies
UnlockedNever(l, p) == l

Unlocked(l, p) ==
    [excl |-> IF l.excl = p THEN None ELSE l.excl, shared |-> l.shared \ {p}]

(***************************************************************************)
(* Initial state: no process runs, nothing is on disk.                     *)
(***************************************************************************)
NoRecorded == [valid |-> FALSE, c |-> 0, saved |-> FALSE]
NoRun == [len |-> 0, saves |-> 0, ok |-> FALSE]

InitStore ==
    /\ disk = [f \in Paths |-> Absent]
    /\ flock = [excl |-> None, shared |-> {}]
    /\ pc = [p \in Procs |-> "off"]
    /\ ret = [p \in Procs |-> None]
    /\ pokedex = [p \in Procs |-> EmptyPokedex]
    /\ pokedexNil = [p \in Procs |-> FALSE]
    /\ cursor = [p \in Procs |-> NoCursor]
    /\ autoSaveEnabled = [p \in Procs |-> TRUE]
    /\ autoSaveInterval = [p \in Procs |-> 1]
    /\ changesSinceSync = [p \in Procs |-> 0]
    /\ data = [p \in Procs |-> << >>]
    /\ woff = [p \in Procs |-> 0]
    /\ committed = Absent
    /\ committedMap = EmptyPokedex
    /\ committedCursor = NoCursor
    /\ startLoad = None
    /\ lastLoad = [p \in Procs |-> None]
    /\ lastSave = [p \in Procs |-> None]
    /\ rec = NoRecorded
    /\ run = NoRun

cfgVars == <<pokedex, pokedexNil, cursor, autoSaveEnabled, autoSaveInterval>>
commitVars == <<committed, committedMap, committedCursor>>
syncHist == <<rec, run>>

(***************************************************************************)
(* savePokedexData and loadPokedexData, step by step.                      *)
(***************************************************************************)
\* The return of savePokedexData / loadPokedexData to its caller: the
\* deferred fileLock.Unlock(), then what the caller does with the result.
\*   "start":   main, which goes on to the REPL whatever Load returned
\*   "cmd":     a command that returns to the REPL
\*   "release": commandRelease, which resets the counter after a save
\*              that returned no error
\*   "exit":    commandExit, which ends the process
FinishResetsAlways(p, ok) ==
    /\ flock' = Unlocked(flock, p)
    /\ pc' = [pc EXCEPT ![p] = IF ret[p] = "exit" THEN "exiting" ELSE "repl"]
    /\ ret' = [ret EXCEPT ![p] = None]
    /\ changesSinceSync' =
          [changesSinceSync EXCEPT ![p] = IF ret[p] = "release" THEN 0 ELSE @]
    /\ data' = [data EXCEPT ![p] = << >>]
    /\ woff' = [woff EXCEPT ![p] = 0]
    /\ startLoad' = IF p = "A" /\ ret[p] = "start"
                    THEN (IF ok THEN "ok" ELSE "failed")
                    ELSE startLoad

Finish(p, ok) ==
    /\ flock' = Unlocked(flock, p)
    /\ pc' = [pc EXCEPT ![p] = IF ret[p] = "exit" THEN "exiting" ELSE "repl"]
    /\ ret' = [ret EXCEPT ![p] = None]
    /\ changesSinceSync' =
          [changesSinceSync EXCEPT ![p] = IF ret[p] = "release" /\ ok THEN 0 ELSE @]
    /\ data' = [data EXCEPT ![p] = << >>]
    /\ woff' = [woff EXCEPT ![p] = 0]
    /\ startLoad' = IF p = "A" /\ ret[p] = "start"
                    THEN (IF ok THEN "ok" ELSE "failed")
                    ELSE startLoad

\* a caller calls savePokedexData
CallSave(p, r) ==
    /\ pc' = [pc EXCEPT ![p] = "acquire"]
    /\ ret' = [ret EXCEPT ![p] = r]

\* fileLock.TryLockContext returned locked = true
SaveLockOk(p) ==
    /\ pc[p] = "acquire"
    /\ LockFree(flock)
    /\ flock' = [flock EXCEPT !.excl = p]
    /\ disk' = LockFileOpened(disk)
    /\ pc' = [pc EXCEPT ![p] = "locked"]
    /\ UNCHANGED <<ret, changesSinceSync, data, woff, cfgVars,
                   commitVars, lastLoad, lastSave, syncHist>>
    /\ UNCHANGED startLoad

\* fileLock.TryLockContext gave up: the lock stayed held for lockTimeout
\* (the lock file is there: the holder opened it)
SaveLockBlocks(p) == FALSE /\ UNCHANGED vars

SaveLockTimeout(p) ==
    /\ pc[p] = "acquire"
    /\ ~LockFree(flock)
    /\ Finish(p, FALSE)
    /\ UNCHANGED <<cfgVars, disk, commitVars, lastLoad, syncHist>>
    /\ lastSave' = [lastSave EXCEPT ![p] = "timeout"]

\* RLock; saveData := SaveData{Pokedex: cfg.pokedex, LastSaved: time.Now()};
\* RUnlock.  saveData.Pokedex is the map itself, not a copy of it.
SaveSnapshot(p) ==
    /\ pc[p] = "locked"
    /\ data' = [data EXCEPT ![p] = <<EndTok(now)>>]
    /\ pc' = [pc EXCEPT ![p] = "marshal"]
    /\ UNCHANGED <<flock, ret, changesSinceSync, woff, cfgVars, disk,
                   commitVars, lastLoad, lastSave, syncHist>>
    /\ UNCHANGED startLoad

\* data, err := json.Marshal(saveData): reads the map now
SaveMarshal(p) ==
    /\ pc[p] = "marshal"
    /\ data' = [data EXCEPT ![p] = IF pokedexNil[p]
                                   THEN MarshalNil(data[p][1].at)
                                   ELSE Marshal(pokedex[p], data[p][1].at)]
    /\ pc' = [pc EXCEPT ![p] = "write"]
    /\ UNCHANGED <<flock, ret, changesSinceSync, woff, cfgVars, disk,
                   commitVars, lastLoad, lastSave, syncHist>>
    /\ UNCHANGED startLoad

\* json.Marshal returned an error
SaveMarshalFail(p) ==
    /\ pc[p] = "marshal"
    /\ Finish(p, FALSE)
    /\ UNCHANGED <<cfgVars, disk, commitVars, lastLoad, syncHist>>
    /\ lastSave' = [lastSave EXCEPT ![p] = "marshal"]

\* os.WriteFile(tempFilePath, ...): open with O_CREATE|O_TRUNC
WriteOpen(p) ==
    /\ pc[p] = "write"
    /\ disk' = [disk EXCEPT ![TempFilePath] = [exists |-> TRUE, bytes |-> << >>]]
    /\ pc' = [pc EXCEPT ![p] = "writing"]
    /\ UNCHANGED <<flock, ret, changesSinceSync, data, woff, cfgVars,
                   commitVars, lastLoad, lastSave, syncHist>>
    /\ UNCHANGED startLoad

\* os.WriteFile: the next part of data reaches the temporary file
WriteChunk(p) ==
    /\ pc[p] = "writing"
    /\ woff[p] < Len(data[p])
    /\ disk' = [disk EXCEPT ![TempFilePath] =
                  [exists |-> TRUE,
                   bytes |-> WriteAt(tmp.bytes, woff[p], data[p][woff[p] + 1])]]
    /\ woff' = [woff EXCEPT ![p] = @ + 1]
    /\ UNCHANGED <<flock, pc, ret, changesSinceSync, data, cfgVars,
                   commitVars, lastLoad, lastSave, syncHist>>
    /\ UNCHANGED startLoad

\* os.WriteFile returned an error (open or write failed)
WriteFailRollsBack(p) ==
    /\ \/ pc[p] = "write"
       \/ pc[p] = "writing" /\ woff[p] < Len(data[p])
    /\ Finish(p, FALSE)
    /\ pokedex' = [pokedex EXCEPT ![p] = committedMap]
    /\ UNCHANGED <<pokedexNil, cursor, autoSaveEnabled, autoSaveInterval, disk, commitVars,
                   lastLoad, syncHist>>
    /\ lastSave' = [lastSave EXCEPT ![p] = "write"]

WriteFail(p) ==
    /\ \/ pc[p] = "write"
       \/ pc[p] = "writing" /\ woff[p] < Len(data[p])
    /\ Finish(p, FALSE)
    /\ UNCHANGED <<cfgVars, disk, commitVars, lastLoad, syncHist>>
    /\ lastSave' = [lastSave EXCEPT ![p] = "write"]

SaveRenameIgnoresWriteError(p) ==
    /\ pc[p] = "writing"
    /\ tmp.exists
    /\ disk' = Renamed(disk, TempFilePath, SaveFilePath)
    /\ committed' = [exists |-> TRUE, bytes |-> data[p]]
    /\ committedMap' = pokedex[p]
    /\ committedCursor' = cursor[p]
    /\ lastLoad' = [q \in Procs |-> None]
    /\ Finish(p, TRUE)
    /\ UNCHANGED <<cfgVars, syncHist>>
    /\ lastSave' = [lastSave EXCEPT ![p] = "ok"]

\* os.Rename(tempFilePath, saveFilePath) succeeded
SaveRename(p) ==
    /\ pc[p] = "writing"
    /\ woff[p] = Len(data[p])
    /\ tmp.exists
    /\ disk' = Renamed(disk, TempFilePath, SaveFilePath)
    /\ committed' = [exists |-> TRUE, bytes |-> data[p]]
    /\ committedMap' = pokedex[p]
    /\ committedCursor' = cursor[p]
    /\ lastLoad' = [q \in Procs |-> None]
    /\ Finish(p, TRUE)
    /\ UNCHANGED <<cfgVars, syncHist>>
    /\ lastSave' = [lastSave EXCEPT ![p] = "ok"]

SaveRenameFailRemovesSaveFile(p) ==
    /\ pc[p] = "writing"
    /\ woff[p] = Len(data[p])
    /\ disk' = [disk EXCEPT ![SaveFilePath] = Absent]
    /\ Finish(p, FALSE)
    /\ UNCHANGED <<cfgVars, commitVars, lastLoad, syncHist>>
    /\ lastSave' = [lastSave EXCEPT ![p] = "rename"]

\* os.Rename failed; os.Remove(tempFilePath)
SaveRenameFail(p) ==
    /\ pc[p] = "writing"
    /\ woff[p] = Len(data[p])
    /\ disk' = [disk EXCEPT ![TempFilePath] = Absent]
    /\ Finish(p, FALSE)
    /\ UNCHANGED <<cfgVars, commitVars, lastLoad, syncHist>>
    /\ lastSave' = [lastSave EXCEPT ![p] = "rename"]

\* os.Stat(saveFilePath): no file, nothing to load
LoadStatNoCheck(p) ==
    /\ pc[p] = "stat"
    /\ pc' = [pc EXCEPT ![p] = "racquire"]
    /\ UNCHANGED <<flock, ret, changesSinceSync, data, woff, lastLoad, startLoad>>
    /\ UNCHANGED <<cfgVars, disk, commitVars, syncHist>>
    /\ UNCHANGED lastSave

LoadStat(p) ==
    /\ pc[p] = "stat"
    /\ IF file.exists
       THEN /\ pc' = [pc EXCEPT ![p] = "racquire"]
            /\ UNCHANGED <<flock, ret, changesSinceSync, data, woff, lastLoad,
                           startLoad>>
       ELSE /\ lastLoad' = [lastLoad EXCEPT ![p] = "absent"]
            /\ Finish(p, TRUE)
    /\ UNCHANGED <<cfgVars, disk, commitVars, syncHist>>
    /\ UNCHANGED lastSave

\* fileLock.TryRLockContext returned locked = true
LoadLockOk(p) ==
    /\ pc[p] = "racquire"
    /\ RLockFree(flock)
    /\ flock' = [flock EXCEPT !.shared = @ \cup {p}]
    /\ disk' = LockFileOpened(disk)
    /\ pc' = [pc EXCEPT ![p] = "read"]
    /\ UNCHANGED <<ret, changesSinceSync, data, woff, cfgVars,
                   commitVars, lastLoad, lastSave, syncHist>>
    /\ UNCHANGED startLoad

\* fileLock.TryRLockContext gave up
LoadLockTimeout(p) ==
    /\ pc[p] = "racquire"
    /\ ~RLockFree(flock)
    /\ lastLoad' = [lastLoad EXCEPT ![p] = "timeout"]
    /\ Finish(p, FALSE)
    /\ UNCHANGED <<cfgVars, disk, commitVars, syncHist>>
    /\ UNCHANGED lastSave

LoadReadDiscards(p) ==
    /\ pc[p] = "read"
    /\ IF file.exists /\ UnmarshalOk(file.bytes)
       THEN /\ pokedex' = [pokedex EXCEPT ![p] = UnmarshalPokedex(file.bytes)]
            /\ pokedexNil' = [pokedexNil EXCEPT ![p] = UnmarshalNil(file.bytes)]
            /\ disk' = disk
       ELSE /\ pokedex' = [pokedex EXCEPT ![p] = EmptyPokedex]
            /\ pokedexNil' = [pokedexNil EXCEPT ![p] = FALSE]
            /\ disk' = [disk EXCEPT ![SaveFilePath] = Absent]
    /\ cursor' = [cursor EXCEPT ![p] = NoCursor]
    /\ lastLoad' = [lastLoad EXCEPT ![p] = "ok"]
    /\ Finish(p, TRUE)
    /\ UNCHANGED <<autoSaveEnabled, autoSaveInterval, commitVars, syncHist>>
    /\ UNCHANGED lastSave

\* os.ReadFile, json.Unmarshal, then the assignment under cfg.mutex.Lock()
LoadRead(p) ==
    /\ pc[p] = "read"
    /\ IF file.exists /\ UnmarshalOk(file.bytes)
       THEN /\ pokedex' = [pokedex EXCEPT ![p] = UnmarshalPokedex(file.bytes)]
            /\ pokedexNil' = [pokedexNil EXCEPT ![p] = UnmarshalNil(file.bytes)]
            /\ cursor' = [cursor EXCEPT ![p] = NoCursor]
            /\ lastLoad' = [lastLoad EXCEPT ![p] = "ok"]
            /\ Finish(p, TRUE)
       ELSE /\ lastLoad' = [lastLoad EXCEPT ![p] = "decodeerr"]
            /\ Finish(p, FALSE)
            /\ UNCHANGED <<pokedex, pokedexNil, cursor>>
    /\ UNCHANGED <<autoSaveEnabled, autoSaveInterval, disk, commitVars,
                   syncHist>>
    /\ UNCHANGED lastSave

\* os.ReadFile returned an error
LoadReadFail(p) ==
    /\ pc[p] = "read"
    /\ lastLoad' = [lastLoad EXCEPT ![p] = "ioerr"]
    /\ Finish(p, FALSE)
    /\ UNCHANGED <<cfgVars, disk, commitVars, syncHist>>
    /\ UNCHANGED lastSave

(***************************************************************************)
(* The process: main, the REPL and the commands.                           *)
(***************************************************************************)
\* the config main builds: empty Pokedex, auto-save on, interval 1,
\* no changes yet, map not viewed
FreshConfig(p) ==
    /\ pokedex' = [pokedex EXCEPT ![p] = EmptyPokedex]
    /\ pokedexNil' = [pokedexNil EXCEPT ![p] = FALSE]
    /\ cursor' = [cursor EXCEPT ![p] = NoCursor]
    /\ autoSaveEnabled' = [autoSaveEnabled EXCEPT ![p] = TRUE]
    /\ autoSaveInterval' = [autoSaveInterval EXCEPT ![p] = 1]
    /\ changesSinceSync' = [changesSinceSync EXCEPT ![p] = 0]
    /\ data' = [data EXCEPT ![p] = << >>]
    /\ woff' = [woff EXCEPT ![p] = 0]
    /\ startLoad' = IF p = "A" THEN None ELSE startLoad

\* main: build the config, then loadPokedexData
Start(p) ==
    /\ pc[p] = "off"
    /\ FreshConfig(p)
    /\ pc' = [pc EXCEPT ![p] = "stat"]
    /\ ret' = [ret EXCEPT ![p] = "start"]
    /\ lastLoad' = [lastLoad EXCEPT ![p] = None]
    /\ lastSave' = [lastSave EXCEPT ![p] = None]
    /\ IF p = "A"
       THEN rec' = NoRecorded /\ run' = [len |-> 0, saves |-> 0, ok |-> TRUE]
       ELSE UNCHANGED syncHist
    /\ UNCHANGED <<flock, disk, commitVars>>

\* the process is gone: its memory is lost, the OS drops its flock
Halt(p) ==
    /\ FreshConfig(p)
    /\ pc' = [pc EXCEPT ![p] = "off"]
    /\ ret' = [ret EXCEPT ![p] = None]
    /\ flock' = Unlocked(flock, p)
    /\ lastLoad' = [lastLoad EXCEPT ![p] = None]
    /\ lastSave' = [lastSave EXCEPT ![p] = None]
    /\ IF p = "A" THEN rec' = NoRecorded /\ run' = NoRun ELSE UNCHANGED syncHist

\* the process is killed, or the machine loses power
Crash(p) ==
    /\ pc[p] # "off"
    /\ Halt(p)
    /\ UNCHANGED <<disk, commitVars>>

\* commandExit: os.Exit(0) after the save attempt
Exit0(p) ==
    /\ pc[p] = "exiting"
    /\ Halt(p)
    /\ UNCHANGED <<disk, commitVars>>

\* startREPL: EOF on stdin, the loop returns and main ends
Eof(p) ==
    /\ pc[p] = "repl"
    /\ Halt(p)
    /\ UNCHANGED <<disk, commitVars>>

\* history of process A's recorded changes
Recorded(p, c, saves) ==
    IF p = "A"
    THEN /\ rec' = [valid |-> TRUE, c |-> c, saved |-> saves]
         /\ run' = IF run.len < MaxRun
                   THEN [len |-> run.len + 1,
                         saves |-> run.saves + (IF saves THEN 1 ELSE 0),
                         ok |-> run.ok]
                   ELSE [run EXCEPT !.ok = FALSE]
    ELSE UNCHANGED syncHist

\* cfg.changesSinceSync++; shouldSave := cfg.changesSinceSync >= cfg.autoSaveInterval
ShouldSave(c, n) == c + 1 >= n

\* UpdatePokedexAndSave: the counter under cfg.mutex, then autoSaveIfEnabled
UpdatePokedexAndSave(p) ==
    LET c == changesSinceSync[p]
        should == ShouldSave(c, autoSaveInterval[p])
        saves == should /\ autoSaveEnabled[p]
    IN /\ changesSinceSync' = [changesSinceSync EXCEPT ![p] = IF should THEN 0 ELSE c + 1]
       /\ IF saves THEN CallSave(p, "cmd") ELSE UNCHANGED <<pc, ret>>
       /\ Recorded(p, c, saves)

\* commandCatch, the Pokemon was caught: insert, then UpdatePokedexAndSave
\* (whose error is reported and not returned).  The assignment to an entry
\* of a nil map panics, and the process ends.
CmdCatch(p, k, h) ==
    /\ pc[p] = "repl"
    /\ IF pokedexNil[p]
       THEN /\ Halt(p)
            /\ UNCHANGED <<disk, commitVars>>
       ELSE /\ pokedex' = [pokedex EXCEPT ![p] =
                             Inserted(@, k, [name |-> k, height |-> h])]
            /\ UpdatePokedexAndSave(p)
            /\ lastLoad' = [lastLoad EXCEPT ![p] = None]
            /\ lastSave' = [lastSave EXCEPT ![p] = None]
            /\ UNCHANGED <<flock, pokedexNil, cursor, autoSaveEnabled,
                           autoSaveInterval, data, woff, disk, commitVars>>
            /\ UNCHANGED startLoad

\* commandEvolve: delete the original, insert the evolved form, then
\* UpdatePokedexAndSave
CmdEvolve(p, k, k2, h) ==
    /\ pc[p] = "repl"
    /\ k \in DOMAIN pokedex[p]
    /\ k2 # k
    /\ pokedex' = [pokedex EXCEPT ![p] =
                     Inserted(Deleted(@, k), k2, [name |-> k2, height |-> h])]
    /\ UpdatePokedexAndSave(p)
    /\ lastLoad' = [lastLoad EXCEPT ![p] = None]
    /\ lastSave' = [lastSave EXCEPT ![p] = None]
    /\ UNCHANGED <<flock, pokedexNil, cursor, autoSaveEnabled, autoSaveInterval,
                   data, woff, disk, commitVars>>
    /\ UNCHANGED startLoad

\* commandRelease: delete, then its own copy of the policy:
\* the counter is reset after autoSaveIfEnabled returned no error
CmdRelease(p, k) ==
    /\ pc[p] = "repl"
    /\ k \in DOMAIN pokedex[p]
    /\ pokedex' = [pokedex EXCEPT ![p] = Deleted(@, k)]
    /\ LET c == changesSinceSync[p]
           over == ShouldSave(c, autoSaveInterval[p])
           saves == over /\ autoSaveEnabled[p]
       IN /\ changesSinceSync' =
                [changesSinceSync EXCEPT ![p] = IF over /\ ~saves THEN 0 ELSE c + 1]
          /\ IF saves THEN CallSave(p, "release") ELSE UNCHANGED <<pc, ret>>
          /\ Recorded(p, c, saves)
    /\ lastLoad' = [lastLoad EXCEPT ![p] = None]
    /\ lastSave' = [lastSave EXCEPT ![p] = None]
    /\ UNCHANGED <<flock, pokedexNil, cursor, autoSaveEnabled, autoSaveInterval,
                   data, woff, disk, commitVars>>
    /\ UNCHANGED startLoad

\* commandSave
CmdSave(p) ==
    /\ pc[p] = "repl"
    /\ CallSave(p, "cmd")
    /\ lastLoad' = [lastLoad EXCEPT ![p] = None]
    /\ lastSave' = [lastSave EXCEPT ![p] = None]
    /\ UNCHANGED <<flock, changesSinceSync, data, woff, cfgVars, disk,
                   commitVars, syncHist>>
    /\ UNCHANGED startLoad

\* commandReset, confirmed with "y": clear the Pokedex, then save
CmdReset(p) ==
    /\ pc[p] = "repl"
    /\ pokedex' = [pokedex EXCEPT ![p] = EmptyPokedex]
    /\ pokedexNil' = [pokedexNil EXCEPT ![p] = FALSE]
    /\ CallSave(p, "cmd")
    /\ lastLoad' = [lastLoad EXCEPT ![p] = None]
    /\ lastSave' = [lastSave EXCEPT ![p] = None]
    /\ UNCHANGED <<flock, changesSinceSync, data, woff, cursor, autoSaveEnabled,
                   autoSaveInterval, disk, commitVars, syncHist>>
    /\ UNCHANGED startLoad

\* history: process A's settings were set
SettingsSet(p, enabled) ==
    IF p = "A"
    THEN /\ rec' = NoRecorded
         /\ run' = [len |-> 0, saves |-> 0, ok |-> enabled /\ changesSinceSync[p] = 0]
    ELSE UNCHANGED syncHist

\* commandAutoSave on / off: set the flag, then save
CmdAutoSave(p, on) ==
    /\ pc[p] = "repl"
    /\ autoSaveEnabled' = [autoSaveEnabled EXCEPT ![p] = on]
    /\ CallSave(p, "cmd")
    /\ SettingsSet(p, on)
    /\ lastLoad' = [lastLoad EXCEPT ![p] = None]
    /\ lastSave' = [lastSave EXCEPT ![p] = None]
    /\ UNCHANGED <<flock, changesSinceSync, data, woff, pokedex, pokedexNil, cursor,
                   autoSaveInterval, disk, commitVars>>
    /\ UNCHANGED startLoad

\* the argument of saveinterval as typed: a decimal number, or some other text
Num(n) == [numeric |-> TRUE, val |-> n]
IntervalArgs == {[numeric |-> FALSE, val |-> 0]} \cup {Num(n) : n \in (-1)..MaxInterval}

\* strconv.Atoi(params[0])
Atoi(a) == [err |-> ~a.numeric, n |-> IF a.numeric THEN a.val ELSE 0]

\* a command that returns an error before it changed anything
Rejected(p) ==
    UNCHANGED <<flock, pc, ret, changesSinceSync, data, woff, cfgVars, disk,
                commitVars, syncHist, startLoad>>

CmdSaveIntervalNoCheck(p, a) ==
    /\ pc[p] = "repl"
    /\ lastLoad' = [lastLoad EXCEPT ![p] = None]
    /\ lastSave' = [lastSave EXCEPT ![p] = None]
    /\ LET r == Atoi(a)
       IN IF r.err
          THEN Rejected(p)
          ELSE /\ autoSaveInterval' = [autoSaveInterval EXCEPT ![p] = r.n]
               /\ CallSave(p, "cmd")
               /\ SettingsSet(p, autoSaveEnabled[p])
               /\ UNCHANGED <<flock, changesSinceSync, data, woff, pokedex,
                              pokedexNil, cursor, autoSaveEnabled, disk, commitVars>>
               /\ UNCHANGED startLoad

\* commandSaveInterval with an argument: "invalid interval" unless it is a
\* number that is at least 1; else set the interval, then save
CmdSaveInterval(p, a) ==
    /\ pc[p] = "repl"
    /\ lastLoad' = [lastLoad EXCEPT ![p] = None]
    /\ lastSave' = [lastSave EXCEPT ![p] = None]
    /\ LET r == Atoi(a)
       IN IF r.err \/ r.n < 1
          THEN Rejected(p)
          ELSE /\ autoSaveInterval' = [autoSaveInterval EXCEPT ![p] = r.n]
               /\ CallSave(p, "cmd")
               /\ SettingsSet(p, autoSaveEnabled[p])
               /\ UNCHANGED <<flock, changesSinceSync, data, woff, pokedex,
                              pokedexNil, cursor, autoSaveEnabled, disk, commitVars>>
               /\ UNCHANGED startLoad

\* commandExit: save, then exit
CmdExit(p) ==
    /\ pc[p] = "repl"
    /\ CallSave(p, "exit")
    /\ lastLoad' = [lastLoad EXCEPT ![p] = None]
    /\ lastSave' = [lastSave EXCEPT ![p] = None]
    /\ UNCHANGED <<flock, changesSinceSync, data, woff, cfgVars, disk,
                   commitVars, syncHist>>
    /\ UNCHANGED startLoad

\* commandMap: the first page of locations was fetched
CmdMap(p) ==
    /\ pc[p] = "repl"
    /\ cursor' = [cursor EXCEPT ![p] = [next |-> "page2", prev |-> None, viewed |-> TRUE]]
    /\ UNCHANGED <<flock, pc, ret, changesSinceSync, data, woff, pokedex, pokedexNil,
                   autoSaveEnabled, autoSaveInterval, disk, commitVars, lastLoad, lastSave,
                   syncHist>>
    /\ UNCHANGED startLoad

\* Two instances with the default settings on one save file; either can be
\* killed at any step.  Instance A saves what it loaded ("save", "exit"),
\* instance B changes its Pokedex ("catch", "release").
NextStore ==
    \/ \E p \in Procs : SaveLockOk(p) /\ UNCHANGED <<cacheVars, clientVars, nameVars, goVars>>
    \/ \E p \in Procs : SaveSnapshot(p) /\ UNCHANGED <<cacheVars, clientVars, nameVars, goVars>>
    \/ \E p \in Procs : SaveMarshal(p) /\ UNCHANGED <<cacheVars, clientVars, nameVars, goVars>>
    \/ \E p \in Procs : WriteOpen(p) /\ UNCHANGED <<cacheVars, clientVars, nameVars, goVars>>
    \/ \E p \in Procs : WriteChunk(p) /\ UNCHANGED <<cacheVars, clientVars, nameVars, goVars>>
    \/ \E p \in Procs : SaveRename(p) /\ UNCHANGED <<cacheVars, clientVars, nameVars, goVars>>
    \/ \E p \in Procs : LoadStat(p) /\ UNCHANGED <<cacheVars, clientVars, nameVars, goVars>>
    \/ \E p \in Procs : LoadLockOk(p) /\ UNCHANGED <<cacheVars, clientVars, nameVars, goVars>>
    \/ \E p \in Procs : LoadRead(p) /\ UNCHANGED <<cacheVars, clientVars, nameVars, goVars>>
    \/ \E p \in Procs : SaveLockTimeout(p) /\ UNCHANGED <<cacheVars, clientVars, nameVars, goVars>>
    \/ \E p \in Procs : LoadLockTimeout(p) /\ UNCHANGED <<cacheVars, clientVars, nameVars, goVars>>
    \/ \E p \in Procs : Start(p) /\ UNCHANGED <<cacheVars, clientVars, nameVars, goVars>>
    \/ \E p \in Procs : Crash(p) /\ UNCHANGED <<cacheVars, clientVars, nameVars, goVars>>
    \/ \E p \in Procs : Exit0(p) /\ UNCHANGED <<cacheVars, clientVars, nameVars, goVars>>
    \/ \E p \in Procs : CmdExit(p) /\ UNCHANGED <<cacheVars, clientVars, nameVars, goVars>>
    \/ CmdSave("A") /\ UNCHANGED <<cacheVars, clientVars, nameVars, goVars>>
    \/ \E k \in Names, h \in Heights : CmdCatch("B", k, h) /\ UNCHANGED <<cacheVars, clientVars, nameVars, goVars>>
    \/ \E k \in Names : CmdRelease("B", k) /\ UNCHANGED <<cacheVars, clientVars, nameVars, goVars>>

\* One instance, every command; the disk can fail.
NextSync ==
    \/ SaveLockOk("A") /\ UNCHANGED <<cacheVars, clientVars, nameVars, goVars>>
    \/ SaveSnapshot("A") /\ UNCHANGED <<cacheVars, clientVars, nameVars, goVars>>
    \/ SaveMarshal("A") /\ UNCHANGED <<cacheVars, clientVars, nameVars, goVars>>
    \/ WriteOpen("A") /\ UNCHANGED <<cacheVars, clientVars, nameVars, goVars>>
    \/ WriteChunk("A") /\ UNCHANGED <<cacheVars, clientVars, nameVars, goVars>>
    \/ SaveRename("A") /\ UNCHANGED <<cacheVars, clientVars, nameVars, goVars>>
    \/ LoadStat("A") /\ UNCHANGED <<cacheVars, clientVars, nameVars, goVars>>
    \/ LoadLockOk("A") /\ UNCHANGED <<cacheVars, clientVars, nameVars, goVars>>
    \/ LoadRead("A") /\ UNCHANGED <<cacheVars, clientVars, nameVars, goVars>>
    \/ SaveMarshalFail("A") /\ UNCHANGED <<cacheVars, clientVars, nameVars, goVars>>
    \/ WriteFail("A") /\ UNCHANGED <<cacheVars, clientVars, nameVars, goVars>>
    \/ SaveRenameFail("A") /\ UNCHANGED <<cacheVars, clientVars, nameVars, goVars>>
    \/ LoadReadFail("A") /\ UNCHANGED <<cacheVars, clientVars, nameVars, goVars>>
    \/ Start("A") /\ UNCHANGED <<cacheVars, clientVars, nameVars, goVars>>
    \/ Exit0("A") /\ UNCHANGED <<cacheVars, clientVars, nameVars, goVars>>
    \/ Eof("A") /\ UNCHANGED <<cacheVars, clientVars, nameVars, goVars>>
    \/ \E k \in Names, h \in Heights : CmdCatch("A", k, h) /\ UNCHANGED <<cacheVars, clientVars, nameVars, goVars>>
    \/ \E k, k2 \in Names, h \in Heights : CmdEvolve("A", k, k2, h) /\ UNCHANGED <<cacheVars, clientVars, nameVars, goVars>>
    \/ \E k \in Names : CmdRelease("A", k) /\ UNCHANGED <<cacheVars, clientVars, nameVars, goVars>>
    \/ CmdSave("A") /\ UNCHANGED <<cacheVars, clientVars, nameVars, goVars>>
    \/ CmdReset("A") /\ UNCHANGED <<cacheVars, clientVars, nameVars, goVars>>
    \/ \E on \in BOOLEAN : CmdAutoSave("A", on) /\ UNCHANGED <<cacheVars, clientVars, nameVars, goVars>>
    \/ \E n \in 1..MaxInterval : CmdSaveInterval("A", Num(n)) /\ UNCHANGED <<cacheVars, clientVars, nameVars, goVars>>
    \/ CmdExit("A") /\ UNCHANGED <<cacheVars, clientVars, nameVars, goVars>>
    \/ CmdMap("A") /\ UNCHANGED <<cacheVars, clientVars, nameVars, goVars>>

\* something outside the program (an editor, an older version, a bad disk)
\* leaves at the save path a document json.Unmarshal rejects
Damage ==
    /\ file # [exists |-> TRUE, bytes |-> <<HoleTok>>]
    /\ disk' = [disk EXCEPT ![SaveFilePath] = [exists |-> TRUE, bytes |-> <<HoleTok>>]]
    /\ UNCHANGED <<flock, pc, ret, changesSinceSync, data, woff, cfgVars,
                   commitVars, lastLoad, lastSave, syncHist>>
    /\ UNCHANGED startLoad

\* Two instances on one save file, as in NextStore, on a disk that can fail;
\* no instance is killed, and the API serves one record per name.
NextDisk ==
    \/ \E p \in Procs : SaveLockOk(p) /\ UNCHANGED <<cacheVars, clientVars, nameVars, goVars>>
    \/ \E p \in Procs : SaveLockTimeout(p) /\ UNCHANGED <<cacheVars, clientVars, nameVars, goVars>>
    \/ \E p \in Procs : SaveSnapshot(p) /\ UNCHANGED <<cacheVars, clientVars, nameVars, goVars>>
    \/ \E p \in Procs : SaveMarshal(p) /\ UNCHANGED <<cacheVars, clientVars, nameVars, goVars>>
    \/ \E p \in Procs : SaveMarshalFail(p) /\ UNCHANGED <<cacheVars, clientVars, nameVars, goVars>>
    \/ \E p \in Procs : WriteOpen(p) /\ UNCHANGED <<cacheVars, clientVars, nameVars, goVars>>
    \/ \E p \in Procs : WriteChunk(p) /\ UNCHANGED <<cacheVars, clientVars, nameVars, goVars>>
    \/ \E p \in Procs : WriteFail(p) /\ UNCHANGED <<cacheVars, clientVars, nameVars, goVars>>
    \/ \E p \in Procs : SaveRename(p) /\ UNCHANGED <<cacheVars, clientVars, nameVars, goVars>>
    \/ \E p \in Procs : SaveRenameFail(p) /\ UNCHANGED <<cacheVars, clientVars, nameVars, goVars>>
    \/ \E p \in Procs : LoadStat(p) /\ UNCHANGED <<cacheVars, clientVars, nameVars, goVars>>
    \/ \E p \in Procs : LoadLockOk(p) /\ UNCHANGED <<cacheVars, clientVars, nameVars, goVars>>
    \/ \E p \in Procs : LoadLockTimeout(p) /\ UNCHANGED <<cacheVars, clientVars, nameVars, goVars>>
    \/ \E p \in Procs : LoadRead(p) /\ UNCHANGED <<cacheVars, clientVars, nameVars, goVars>>
    \/ \E p \in Procs : LoadReadFail(p) /\ UNCHANGED <<cacheVars, clientVars, nameVars, goVars>>
    \/ \E p \in Procs : Start(p) /\ UNCHANGED <<cacheVars, clientVars, nameVars, goVars>>
    \/ \E p \in Procs : Exit0(p) /\ UNCHANGED <<cacheVars, clientVars, nameVars, goVars>>
    \/ \E p \in Procs : CmdExit(p) /\ UNCHANGED <<cacheVars, clientVars, nameVars, goVars>>
    \/ CmdSave("A") /\ UNCHANGED <<cacheVars, clientVars, nameVars, goVars>>
    \/ \E k \in Names : CmdCatch("B", k, 1) /\ UNCHANGED <<cacheVars, clientVars, nameVars, goVars>>
    \/ \E k \in Names : CmdRelease("B", k) /\ UNCHANGED <<cacheVars, clientVars, nameVars, goVars>>
    \/ \E k, k2 \in Names : CmdEvolve("B", k, k2, 1) /\ UNCHANGED <<cacheVars, clientVars, nameVars, goVars>>

\* the steps a Save or a Load of p takes by itself, once called: the lock
\* attempt ends (locked, or the context expired) and the disk answers
CallStep(p) ==
    \/ SaveLockOk(p)
    \/ SaveLockTimeout(p)
    \/ SaveSnapshot(p)
    \/ SaveMarshal(p)
    \/ WriteOpen(p)
    \/ WriteChunk(p)
    \/ SaveRename(p)
    \/ LoadStat(p)
    \/ LoadLockOk(p)
    \/ LoadLockTimeout(p)
    \/ LoadRead(p)

\* The same, with a save file that can be damaged from outside.
NextDamaged ==
    \/ NextDisk
    \/ Damage /\ UNCHANGED <<cacheVars, clientVars, nameVars, goVars>>

\* something outside the program (an editor, another tool) leaves at the save
\* path a well-formed document without a collection: {"pokedex":null,...},
\* or one with no "pokedex" key at all
Foreign ==
    /\ file # [exists |-> TRUE, bytes |-> MarshalNil(0)]
    /\ disk' = [disk EXCEPT ![SaveFilePath] = [exists |-> TRUE, bytes |-> MarshalNil(0)]]
    /\ UNCHANGED <<flock, pc, ret, changesSinceSync, data, woff, cfgVars,
                   commitVars, lastLoad, lastSave, syncHist>>
    /\ UNCHANGED startLoad

\* One instance on a healthy disk, with a save file that can be replaced
\* from outside by a document without a collection.
NextForeign ==
    \/ Foreign /\ UNCHANGED <<cacheVars, clientVars, nameVars, goVars>>
    \/ Start("A") /\ UNCHANGED <<cacheVars, clientVars, nameVars, goVars>>
    \/ LoadStat("A") /\ UNCHANGED <<cacheVars, clientVars, nameVars, goVars>>
    \/ LoadLockOk("A") /\ UNCHANGED <<cacheVars, clientVars, nameVars, goVars>>
    \/ LoadRead("A") /\ UNCHANGED <<cacheVars, clientVars, nameVars, goVars>>
    \/ SaveLockOk("A") /\ UNCHANGED <<cacheVars, clientVars, nameVars, goVars>>
    \/ SaveSnapshot("A") /\ UNCHANGED <<cacheVars, clientVars, nameVars, goVars>>
    \/ SaveMarshal("A") /\ UNCHANGED <<cacheVars, clientVars, nameVars, goVars>>
    \/ WriteOpen("A") /\ UNCHANGED <<cacheVars, clientVars, nameVars, goVars>>
    \/ WriteChunk("A") /\ UNCHANGED <<cacheVars, clientVars, nameVars, goVars>>
    \/ SaveRename("A") /\ UNCHANGED <<cacheVars, clientVars, nameVars, goVars>>
    \/ \E k \in Names : CmdCatch("A", k, 1) /\ UNCHANGED <<cacheVars, clientVars, nameVars, goVars>>
    \/ CmdSave("A") /\ UNCHANGED <<cacheVars, clientVars, nameVars, goVars>>
    \/ CmdReset("A") /\ UNCHANGED <<cacheVars, clientVars, nameVars, goVars>>
    \/ CmdExit("A") /\ UNCHANGED <<cacheVars, clientVars, nameVars, goVars>>
    \/ Exit0("A") /\ UNCHANGED <<cacheVars, clientVars, nameVars, goVars>>

\* One instance on a healthy disk: the settings commands with every kind of
\* argument, and the commands that use the settings.
NextSettings ==
    \/ Start("A") /\ UNCHANGED <<cacheVars, clientVars, nameVars, goVars>>
    \/ LoadStat("A") /\ UNCHANGED <<cacheVars, clientVars, nameVars, goVars>>
    \/ LoadLockOk("A") /\ UNCHANGED <<cacheVars, clientVars, nameVars, goVars>>
    \/ LoadRead("A") /\ UNCHANGED <<cacheVars, clientVars, nameVars, goVars>>
    \/ SaveLockOk("A") /\ UNCHANGED <<cacheVars, clientVars, nameVars, goVars>>
    \/ SaveSnapshot("A") /\ UNCHANGED <<cacheVars, clientVars, nameVars, goVars>>
    \/ SaveMarshal("A") /\ UNCHANGED <<cacheVars, clientVars, nameVars, goVars>>
    \/ WriteOpen("A") /\ UNCHANGED <<cacheVars, clientVars, nameVars, goVars>>
    \/ WriteChunk("A") /\ UNCHANGED <<cacheVars, clientVars, nameVars, goVars>>
    \/ SaveRename("A") /\ UNCHANGED <<cacheVars, clientVars, nameVars, goVars>>
    \/ \E a \in IntervalArgs : CmdSaveInterval("A", a) /\ UNCHANGED <<cacheVars, clientVars, nameVars, goVars>>
    \/ \E on \in BOOLEAN : CmdAutoSave("A", on) /\ UNCHANGED <<cacheVars, clientVars, nameVars, goVars>>
    \/ \E k \in Names : CmdCatch("A", k, 1) /\ UNCHANGED <<cacheVars, clientVars, nameVars, goVars>>
    \/ \E k \in Names : CmdRelease("A", k) /\ UNCHANGED <<cacheVars, clientVars, nameVars, goVars>>
    \/ CmdSave("A") /\ UNCHANGED <<cacheVars, clientVars, nameVars, goVars>>
    \/ CmdReset("A") /\ UNCHANGED <<cacheVars, clientVars, nameVars, goVars>>
    \/ CmdExit("A") /\ UNCHANGED <<cacheVars, clientVars, nameVars, goVars>>
    \/ Exit0("A") /\ UNCHANGED <<cacheVars, clientVars, nameVars, goVars>>
    \/ Eof("A") /\ UNCHANGED <<cacheVars, clientVars, nameVars, goVars>>

(***************************************************************************)
(* commandEvolve and savePokedexData on one collection, run by several     *)
(* goroutines: the collection's entries, cfg.mutex and the file lock.      *)
(***************************************************************************)
Species == {"eevee", "vaporeon", "pikachu", "raichu"}

\* findEvolutionsFor(apiName, evolutionChain.Chain)
Evolutions(x) ==
    IF x = "pikachu" THEN <<"raichu">>
    ELSE IF x = "eevee" THEN <<"vaporeon", "jolteon">>
    ELSE << >>

\* params[1] of evolve: 0 when it is missing, else the number typed
Selections == {0, 1, 3}

\* the choice of selectedEvolution, or the error returned
SelectedEvolution(x, sel) ==
    LET evolutions == Evolutions(x)
    IN IF Len(evolutions) = 0 THEN [err |-> "noevolution", y |-> None]
       ELSE IF Len(evolutions) = 1 THEN [err |-> None, y |-> evolutions[1]]
       ELSE IF sel > 0 /\ sel <= Len(evolutions) THEN [err |-> None, y |-> evolutions[sel]]
       ELSE [err |-> "selection", y |-> None]

\* evolvedData, as GetPokemonData(evolvedName) returns it
EvolvedData(y) == [name |-> y, height |-> 1]

\* the locals of a goroutine: the handler, its arguments, the evolved
\* species, what the handler returned, and for json.Marshal the entries
\* still to visit and the entries collected
NoEvo == [fn |-> None, x |-> None, sel |-> 0, y |-> None, res |-> None,
          todo |-> {}, doc |-> EmptyPokedex, before |-> EmptyPokedex]

InitEvo ==
    /\ owned = [k \in {"eevee", "pikachu"} |-> [name |-> k, height |-> 1]]
    /\ epc = [g \in Gs |-> "idle"]
    /\ eloc = [g \in Gs |-> NoEvo]
    /\ fatal = FALSE

goRest == <<gopc, goret, local, cmu, tally>>

\* the handler returns res to the REPL
EvoReturn(g, res) ==
    /\ epc' = [epc EXCEPT ![g] = "idle"]
    /\ eloc' = [eloc EXCEPT ![g] = [NoEvo EXCEPT !.fn = eloc[g].fn, !.x = eloc[g].x,
                                                  !.y = eloc[g].y, !.res = res]]

\* the REPL calls commandEvolve(cfg, [x, sel])
EvoCall(g, x, sel) ==
    /\ ~fatal
    /\ epc[g] = "idle"
    /\ epc' = [epc EXCEPT ![g] = "rlock"]
    /\ eloc' = [eloc EXCEPT ![g] = [NoEvo EXCEPT !.fn = "evolve", !.x = x, !.sel = sel]]
    /\ UNCHANGED <<owned, fatal, mutex, fileLock, sync>>

\* the REPL calls commandSave(cfg)
EvoCallSave(g) ==
    /\ ~fatal
    /\ epc[g] = "idle"
    /\ epc' = [epc EXCEPT ![g] = "flock"]
    /\ eloc' = [eloc EXCEPT ![g] = [NoEvo EXCEPT !.fn = "save"]]
    /\ UNCHANGED <<owned, fatal, mutex, fileLock, sync>>

\* CheckPokemonExists: cfg.mutex.RLock()
EvoRLock(g) ==
    /\ ~fatal
    /\ epc[g] = "rlock"
    /\ mutex.w = None
    /\ mutex' = [mutex EXCEPT !.r = @ \cup {g}]
    /\ epc' = [epc EXCEPT ![g] = "lookup"]
    /\ UNCHANGED <<owned, eloc, fatal, fileLock, sync>>

\* CheckPokemonExists: the lookup and the deferred RUnlock; then
\* GetPokemonIfExists' error, the evolution chain and the selection
EvoLookup(g) ==
    /\ ~fatal
    /\ epc[g] = "lookup"
    /\ mutex' = [mutex EXCEPT !.r = @ \ {g}]
    /\ LET x == eloc[g].x
           s == SelectedEvolution(x, eloc[g].sel)
       IN IF x \notin DOMAIN owned THEN EvoReturn(g, "notowned")
          ELSE IF s.err # None THEN EvoReturn(g, s.err)
          ELSE /\ epc' = [epc EXCEPT ![g] = "fetch"]
               /\ eloc' = [eloc EXCEPT ![g].y = s.y]
    /\ UNCHANGED <<owned, fatal, fileLock, sync>>

\* cfg.pokeapiClient.GetPokemonData(evolvedName)
EvoFetch(g, ok) ==
    /\ ~fatal
    /\ epc[g] = "fetch"
    /\ IF ok THEN epc' = [epc EXCEPT ![g] = "lock"] /\ UNCHANGED eloc
             ELSE EvoReturn(g, "fetch")
    /\ UNCHANGED <<owned, fatal, mutex, fileLock, sync>>

EvoLockSkipped(g) ==
    /\ ~fatal
    /\ epc[g] = "lock"
    /\ epc' = [epc EXCEPT ![g] = "delete"]
    /\ eloc' = [eloc EXCEPT ![g].before = owned]
    /\ UNCHANGED <<owned, fatal, mutex, fileLock, sync>>

\* commandEvolve: cfg.mutex.Lock()
EvoLock(g) ==
    /\ ~fatal
    /\ epc[g] = "lock"
    /\ mutex.w = None /\ mutex.r = {}
    /\ mutex' = [mutex EXCEPT !.w = g]
    /\ epc' = [epc EXCEPT ![g] = "delete"]
    /\ eloc' = [eloc EXCEPT ![g].before = owned]
    /\ UNCHANGED <<owned, fatal, fileLock, sync>>

\* delete(cfg.pokedex, apiName)
EvoDelete(g) ==
    /\ ~fatal
    /\ epc[g] = "delete"
    /\ owned' = Deleted(owned, eloc[g].x)
    /\ epc' = [epc EXCEPT ![g] = "insert"]
    /\ UNCHANGED <<eloc, fatal, mutex, fileLock, sync>>

\* cfg.pokedex[evolvedName] = evolvedData; cfg.mutex.Unlock()
EvoInsert(g) ==
    /\ ~fatal
    /\ epc[g] = "insert"
    /\ owned' = Inserted(owned, eloc[g].y, EvolvedData(eloc[g].y))
    /\ mutex' = [mutex EXCEPT !.w = IF @ = g THEN None ELSE @]
    /\ epc' = [epc EXCEPT ![g] = "count"]
    /\ UNCHANGED <<eloc, fatal, fileLock, sync>>

\* UpdatePokedexAndSave: Lock, changesSinceSync++, the test, the reset,
\* Unlock; then autoSaveIfEnabled
EvoCount(g) ==
    /\ ~fatal
    /\ epc[g] = "count"
    /\ mutex.w = None /\ mutex.r = {}
    /\ LET shouldSave == ShouldSave(sync.changesSinceSync, sync.autoSaveInterval)
       IN /\ sync' = [sync EXCEPT !.changesSinceSync = IF shouldSave THEN 0 ELSE @ + 1]
          /\ IF shouldSave /\ sync.autoSaveEnabled
             THEN epc' = [epc EXCEPT ![g] = "flock"] /\ UNCHANGED eloc
             ELSE EvoReturn(g, "ok")
    /\ UNCHANGED <<owned, fatal, mutex, fileLock>>

\* savePokedexData: fileLock.TryLockContext returned locked = true
EvoFileLock(g) ==
    /\ ~fatal
    /\ epc[g] = "flock"
    /\ fileLock.excl = None /\ fileLock.shared = {}
    /\ fileLock' = [fileLock EXCEPT !.excl = g]
    /\ epc' = [epc EXCEPT ![g] = "snapshot"]
    /\ UNCHANGED <<owned, eloc, fatal, mutex, sync>>

\* the context of TryLockContext ran out: savePokedexData returns the error
EvoFileLockTimeout(g) ==
    /\ ~fatal
    /\ epc[g] = "flock"
    /\ fileLock.excl # None
    /\ EvoReturn(g, "save")
    /\ UNCHANGED <<owned, fatal, mutex, fileLock, sync>>

\* cfg.mutex.RLock(); saveData := SaveData{Pokedex: cfg.pokedex, ...};
\* cfg.mutex.RUnlock(): saveData holds the map itself, not a copy
EvoSnapshot(g) ==
    /\ ~fatal
    /\ epc[g] = "snapshot"
    /\ mutex.w = None
    /\ epc' = [epc EXCEPT ![g] = "marshal"]
    /\ eloc' = [eloc EXCEPT ![g].todo = Species, ![g].doc = EmptyPokedex]
    /\ UNCHANGED <<owned, fatal, mutex, fileLock, sync>>

\* json.Marshal(saveData) ranges over the map, after the RUnlock: it visits
\* the entries one by one, in any order
EvoMarshal(g, k) ==
    /\ ~fatal
    /\ epc[g] = "marshal"
    /\ k \in eloc[g].todo
    /\ eloc' = [eloc EXCEPT ![g].todo = @ \ {k},
                            ![g].doc = IF k \in DOMAIN owned
                                       THEN Inserted(@, k, owned[k]) ELSE @]
    /\ UNCHANGED <<owned, epc, fatal, mutex, fileLock, sync>>

\* os.WriteFile, os.Rename and the deferred fileLock.Unlock()
EvoWrite(g) ==
    /\ ~fatal
    /\ epc[g] = "marshal"
    /\ eloc[g].todo = {}
    /\ fileLock' = [fileLock EXCEPT !.excl = None]
    /\ EvoReturn(g, "ok")
    /\ UNCHANGED <<owned, fatal, mutex, sync>>

\* a goroutine ranges over the map while another one writes to it
EvoRace ==
    \E g, w \in Gs : epc[g] = "marshal" /\ epc[w] \in {"delete", "insert"}

\* The Go runtime detects the unsynchronised access and ends the process
\* ("fatal error: concurrent map iteration and map write"); detection is
\* best effort, so the race may also go unnoticed.
EvoThrow ==
    /\ ~fatal
    /\ EvoRace
    /\ fatal' = TRUE
    /\ UNCHANGED <<owned, epc, eloc, mutex, fileLock, sync>>

NextEvolve ==
    \/ \E g \in Gs, x \in Species, sel \in Selections : EvoCall(g, x, sel) /\ UNCHANGED <<cacheVars, storeVars, clientVars, nameVars, goRest>>
    \/ \E g \in Gs : EvoCallSave(g) /\ UNCHANGED <<cacheVars, storeVars, clientVars, nameVars, goRest>>
    \/ \E g \in Gs : EvoRLock(g) /\ UNCHANGED <<cacheVars, storeVars, clientVars, nameVars, goRest>>
    \/ \E g \in Gs : EvoLookup(g) /\ UNCHANGED <<cacheVars, storeVars, clientVars, nameVars, goRest>>
    \/ \E g \in Gs, ok \in BOOLEAN : EvoFetch(g, ok) /\ UNCHANGED <<cacheVars, storeVars, clientVars, nameVars, goRest>>
    \/ \E g \in Gs : EvoLock(g) /\ UNCHANGED <<cacheVars, storeVars, clientVars, nameVars, goRest>>
    \/ \E g \in Gs : EvoDelete(g) /\ UNCHANGED <<cacheVars, storeVars, clientVars, nameVars, goRest>>
    \/ \E g \in Gs : EvoInsert(g) /\ UNCHANGED <<cacheVars, storeVars, clientVars, nameVars, goRest>>
    \/ \E g \in Gs : EvoCount(g) /\ UNCHANGED <<cacheVars, storeVars, clientVars, nameVars, goRest>>
    \/ \E g \in Gs : EvoFileLock(g) /\ UNCHANGED <<cacheVars, storeVars, clientVars, nameVars, goRest>>
    \/ \E g \in Gs : EvoFileLockTimeout(g) /\ UNCHANGED <<cacheVars, storeVars, clientVars, nameVars, goRest>>
    \/ \E g \in Gs : EvoSnapshot(g) /\ UNCHANGED <<cacheVars, storeVars, clientVars, nameVars, goRest>>
    \/ \E g \in Gs, k \in Species : EvoMarshal(g, k) /\ UNCHANGED <<cacheVars, storeVars, clientVars, nameVars, goRest>>
    \/ \E g \in Gs : EvoWrite(g) /\ UNCHANGED <<cacheVars, storeVars, clientVars, nameVars, goRest>>
    \/ EvoThrow /\ UNCHANGED <<cacheVars, storeVars, clientVars, nameVars, goRest>>

(***************************************************************************)
(* Response cache: properties.                                              *)
(***************************************************************************)
\* C4: a Get(k) issued at the same instant as (immediately after) an
\* Add(k, v) returns (v, true), for every key, the empty key included,
\* also when a sweep pass ran between the two calls.
C4_AddThenGetHits ==
    \A k \in CacheKeys :
        (lastGet.key = k /\ fresh[k] # "no")
            => (lastGet.found /\ lastGet.val = hist[k].val)

\* C4 witness: Add(""), a sweep pass, then a Get("") that hit.
C4_Witness ==
    /\ lastGet.key = ""
    /\ lastGet.swept
    /\ lastGet.found
    /\ lastGet.val = hist[""].val

\* C5: once more than 2*ttl has passed since the last Add(k, ...), Get(k)
\* returns found = false, whatever the offset of the Add from the ticks.
C5_ReapedAfterTwoTtl ==
    \A k \in CacheKeys :
        (hist[k].val # None /\ now - hist[k].at > 2 * ttl) => ~Get(k).found

\* C5 witness: an Add that fell between two ticks, and a Get of that key
\* that missed more than 2*ttl later.
C5_Witness ==
    \E k \in CacheKeys :
        /\ hist[k].val # None
        /\ hist[k].at % ttl # 0
        /\ now - hist[k].at > 2 * ttl
        /\ lastGet.key = k
        /\ ~lastGet.found

\* C6: after Add(k, v1) then Add(k, v2), the entry of k holds v2 and the
\* time of the second Add, and a Get(k) returns (v2, true): v2 whenever it
\* finds the key, and it finds it when issued right after the second Add.
C6_LastWriteWins ==
    \A k \in CacheKeys :
        hist[k].overwrote =>
            /\ k \in DOMAIN cache =>
                  cache[k] = [val |-> hist[k].val, createdAt |-> hist[k].at]
            /\ lastGet.key = k =>
                  /\ lastGet.found => lastGet.val = hist[k].val
                  /\ fresh[k] # "no" => lastGet.found

\* C6 witness: a second Add replaced an older entry holding another value,
\* and a Get then returned the new value.
C6_Witness ==
    \E k \in CacheKeys :
        /\ hist[k].overwrote
        /\ hist[k].at > 0
        /\ lastGet.key = k
        /\ lastGet.found
        /\ lastGet.val = hist[k].val

\* C10: the sweep and the foreground Get/Add are never inside the entry map
\* at the same time.
C10_SweepExcludesForeground == ~MapRace

\* C21: a Get changes nothing in the cache: the entry map is the same after
\* it, hit or miss; it returns found exactly when the key is in the map, with
\* the entry's value, however old the entry is.
C21_GetChangesNothing ==
    [][(fgpc = "locked" /\ fgop.op = "Get" /\ fgpc' = "idle") =>
          /\ cache' = cache
          /\ lastGet'.key = fgop.key
          /\ lastGet'.found = (fgop.key \in DOMAIN cache)
          /\ lastGet'.found => lastGet'.val = cache[fgop.key].val]_vars

\* C21 witness: a Get just returned an entry older than ttl that no sweep
\* has removed yet, and the entry is still there.
C21_Witness ==
    \E k \in CacheKeys :
        /\ lastGet.key = k
        /\ lastGet.found
        /\ k \in DOMAIN cache
        /\ cache[k].createdAt < now - ttl
        /\ lastGet.val = cache[k].val

\* the time of the last completed sweep: the ticker's previous tick, or the
\* one before while the pass of the previous tick is still inside reap
LastSweep == nextTick - ttl - (IF rpc = "reaping" THEN ttl ELSE 0)

\* C22: every entry in the map was created no earlier than s - ttl, s being
\* the time of the last completed sweep (no condition before the first).
C22_NoEntryOlderThanLastSweep ==
    LastSweep >= ttl =>
        \A k \in DOMAIN cache : cache[k].createdAt >= LastSweep - ttl

\* C22 witness: after a sweep at s, an entry created exactly at s - ttl is
\* still there and an older one is gone.
C22_Witness ==
    /\ LastSweep >= ttl
    /\ rpc = "sleep"
    /\ \E k \in DOMAIN cache : cache[k].createdAt = LastSweep - ttl
    /\ \E k \in CacheKeys :
          /\ k \notin DOMAIN cache
          /\ hist[k].val # None
          /\ hist[k].at < LastSweep - ttl

(***************************************************************************)
(* Durable store: properties.                                              *)
(***************************************************************************)
\* C1: whatever step of a Save a crash cuts (after the lock, during the
\* write of the temporary file, between that write and the rename), the
\* save file is absent or holds, whole, the last document whose rename
\* completed; a Load never fails to decode it, and a Load that returns
\* leaves in memory that document's Pokedex, or nothing when there is none.
C1_CrashKeepsLastDocument ==
    /\ file = committed
    /\ file.exists => UnmarshalOk(file.bytes)
    /\ \A p \in Procs :
          /\ lastLoad[p] # "decodeerr"
          /\ lastLoad[p] = "ok" =>
                 committed.exists /\ pokedex[p] = UnmarshalPokedex(committed.bytes)
          /\ lastLoad[p] = "absent" =>
                 ~committed.exists /\ pokedex[p] = EmptyPokedex

\* C1 witness: a crash cut a Save in the middle of its write (part of a
\* document lies in the temporary file and no Save is running), and a Load
\* then returned the earlier document, which is not the one cut.
C1_Witness ==
    \E p \in Procs :
        /\ lastLoad[p] = "ok"
        /\ pc[p] = "repl"
        /\ tmp.exists
        /\ tmp.bytes # << >>
        /\ ~UnmarshalOk(tmp.bytes)
        /\ tmp.bytes[1] # file.bytes[1]
        /\ \A q \in Procs : pc[q] \notin {"locked", "marshal", "write", "writing"}

\* C2: at most one Save is between its lock acquisition and its lock
\* release, and it holds the exclusive lock; the temporary file of the Save
\* that writes holds the tokens that Save wrote and no others; the save file
\* is one whole document, the one of the Save that renamed last.
C2_SavesExclude ==
    LET InSave(p) == pc[p] \in {"locked", "marshal", "write", "writing"}
    IN /\ \A p, q \in Procs : InSave(p) /\ InSave(q) => p = q
       /\ \A p \in Procs : InSave(p) => flock = [excl |-> p, shared |-> {}]
       /\ \A p \in Procs :
             pc[p] = "writing" =>
                 tmp = [exists |-> TRUE, bytes |-> SubSeq(data[p], 1, woff[p])]
       /\ file.exists => file.bytes = committed.bytes

\* C2 witness: two Saves of different documents at once: one has written
\* part of its document, the other waits for the lock.
C2_Witness ==
    \E p, q \in Procs :
        /\ pc[p] = "writing"
        /\ woff[p] >= 1
        /\ pc[q] = "acquire"
        /\ pokedex[p] # pokedex[q]

\* C3: a Load that returns without error leaves in memory exactly the keys
\* of the collection the last Save wrote, each with the record saved.
C3_LoadReturnsSaved ==
    \A p \in Procs :
        lastLoad[p] = "ok" =>
            /\ DOMAIN pokedex[p] = DOMAIN committedMap
            /\ \A k \in DOMAIN committedMap : pokedex[p][k] = committedMap[k]

\* C3 witness: instance B loaded, after a Save, a collection that holds
\* "pikachu" with its record.
C3_Witness ==
    /\ lastLoad["B"] = "ok"
    /\ "pikachu" \in DOMAIN pokedex["B"]
    /\ pokedex["B"]["pikachu"].height >= 1
    /\ pokedex["B"] = committedMap

\* C11: the step by which a Save gives up on the exclusive lock (timeout)
\* changes neither the temporary file nor the save file, and leaves the
\* caller's collection, cursors and change counter as they were; the Save
\* holds no lock afterwards.
C11_LockTimeoutTouchesNothing ==
    [][\A p \in Procs :
          (lastSave[p] # "timeout" /\ lastSave'[p] = "timeout") =>
              /\ disk' = disk
              /\ committed' = committed
              /\ pokedex'[p] = pokedex[p]
              /\ cursor'[p] = cursor[p]
              /\ changesSinceSync'[p] = changesSinceSync[p]
              /\ flock' = flock
              /\ flock.excl # p]_vars

\* C11 witness: instance B's release recorded one change, its Save timed out
\* on the lock instance A holds, and B is back at the prompt with the change
\* counted and not on disk.
C11_Witness ==
    /\ lastSave["B"] = "timeout"
    /\ pc["B"] = "repl"
    /\ changesSinceSync["B"] = 1
    /\ flock.excl = "A"
    /\ pokedex["B"] # committedMap

\* C12: an instance that is not inside a Save or a Load (it is at the
\* prompt, about to exit, or not running) holds the lock file neither
\* exclusively nor shared, however its Saves and Loads ended.
C12_NoLockAtRest ==
    \A p \in Procs :
        pc[p] \in {"off", "repl", "exiting"} =>
            flock.excl # p /\ p \notin flock.shared

\* C12 witness: instance A's Load ended on a decode error and instance B's
\* Save on a failed rename; both are at the prompt and the lock is free.
C12_Witness ==
    /\ pc["A"] = "repl"
    /\ lastLoad["A"] = "decodeerr"
    /\ pc["B"] = "repl"
    /\ lastSave["B"] = "rename"
    /\ flock = [excl |-> None, shared |-> {}]

\* C13: every Save and every Load instance A calls returns, whatever
\* instance B does, also when B holds the lock and never moves again.
C13_CallsReturn ==
    (pc["A"] \in {"stat", "racquire", "read",
                  "acquire", "locked", "marshal", "write", "writing"})
        ~> (pc["A"] \in {"repl", "exiting"})

\* C13 witness: instance A's Save gave up on the lock and returned while
\* instance B, in the middle of its write, still holds it.
C13_Witness ==
    /\ lastSave["A"] = "timeout"
    /\ pc["A"] \in {"repl", "exiting"}
    /\ flock.excl = "B"
    /\ pc["B"] = "writing"

\* C14: a Load reads the document only while it holds the lock shared and
\* no Save holds it exclusively; a Save between its lock acquisition and
\* its return shares the lock with no Load; several Loads can hold the lock
\* together.
C14_LoadsShareSavesExclude ==
    /\ \A p \in Procs :
          pc[p] = "read" => (p \in flock.shared /\ flock.excl = None)
    /\ \A p \in Procs :
          pc[p] \in {"locked", "marshal", "write", "writing"} =>
              (flock.shared = {} /\ \A q \in Procs : pc[q] # "read")
    /\ flock.excl # None => flock.shared = {}

\* C14 witness: both instances hold the lock shared, each about to read the
\* document a Save left.
C14_Witness ==
    /\ pc["A"] = "read"
    /\ pc["B"] = "read"
    /\ flock = [excl |-> None, shared |-> {"A", "B"}]
    /\ file.exists

\* C15: the step by which a Load finds no save file ends the Load without
\* error: the instance goes on to the prompt with the empty collection main
\* built, its cursors and settings as main set them, no lock taken and no
\* file created, the lock file included.
C15_AbsentFileLoadsEmpty ==
    [][\A p \in Procs :
          (pc[p] = "stat" /\ ~file.exists /\ pc'[p] \notin {"stat", "off"}) =>
              /\ pc'[p] = "repl"
              /\ lastLoad'[p] = "absent"
              /\ pokedex[p] = EmptyPokedex
              /\ pokedex'[p] = EmptyPokedex
              /\ cursor'[p] = NoCursor
              /\ changesSinceSync'[p] = 0
              /\ disk' = disk
              /\ flock' = flock]_vars

\* C15 witness: first run: instance A is at the prompt after a Load that
\* found no save file, and the home directory is still empty.
C15_Witness ==
    /\ pc["A"] = "repl"
    /\ lastLoad["A"] = "absent"
    /\ pokedex["A"] = EmptyPokedex
    /\ \A f \in Paths : ~disk[f].exists

\* C16: the step by which a Load ends on a document json.Unmarshal rejects
\* reports the error and changes neither the caller's collection and
\* cursors nor any file: the document is still at the save path.
C16_DecodeErrorKeepsAll ==
    [][\A p \in Procs :
          (/\ pc[p] = "read"
           /\ file.exists
           /\ ~UnmarshalOk(file.bytes)
           /\ pc'[p] \notin {"read", "off"}) =>
              /\ lastLoad'[p] \in {"decodeerr", "ioerr"}
              /\ pokedex'[p] = pokedex[p]
              /\ cursor'[p] = cursor[p]
              /\ changesSinceSync'[p] = changesSinceSync[p]
              /\ disk' = disk]_vars

\* C16 witness: instance A is at the prompt after a Load that could not
\* decode the document, which is still on disk.
C16_Witness ==
    /\ pc["A"] = "repl"
    /\ lastLoad["A"] = "decodeerr"
    /\ pokedex["A"] = EmptyPokedex
    /\ file.exists
    /\ ~UnmarshalOk(file.bytes)

\* C17: the step by which a Save ends on a failed write of the temporary
\* file or a failed rename leaves the save file as it was, which is the
\* whole document of the last completed Save (or no file), and leaves the
\* caller's collection and cursors as they were.
C17_FailedSaveKeepsDocument ==
    [][\A p \in Procs :
          (lastSave[p] = None /\ lastSave'[p] \in {"write", "rename"}) =>
              /\ file' = file
              /\ file' = committed
              /\ file'.exists => UnmarshalOk(file'.bytes)
              /\ pokedex'[p] = pokedex[p]
              /\ cursor'[p] = cursor[p]
              /\ pc'[p] \in {"repl", "exiting"}]_vars

\* C17 witness: instance B's Save failed in the middle of its write: part
\* of the new document lies in the temporary file, the save file holds the
\* earlier, different document, and B still has the new collection.
C17_Witness ==
    /\ lastSave["B"] = "write"
    /\ pc["B"] = "repl"
    /\ tmp.exists
    /\ tmp.bytes # << >>
    /\ ~UnmarshalOk(tmp.bytes)
    /\ file.exists
    /\ file = committed
    /\ pokedex["B"] # committedMap

\* C18: a Save moves only along
\*   Idle -> LockAcquiring ("acquire") -> Writing ("locked", "marshal",
\*   "write", "writing") -> Renaming ("writing", all written) -> Idle,
\* or to Failed and back to Idle from LockAcquiring (timeout) and from
\* Writing / Renaming (error).  The temporary file changes only under the
\* exclusive lock of the Save that writes it; a Save ends in success only
\* by a rename of a temporary file that holds its whole document; a Save
\* that timed out on the lock changed no file.
C18_SaveStateMachine ==
    [][\A p \in Procs :
          LET Idle == {"off", "repl", "exiting"}
              ends(how) == pc'[p] \in Idle /\ lastSave'[p] \in how
          IN /\ pc[p] = "acquire" =>
                   pc'[p] \in {"acquire", "locked"} \/ ends({"timeout"})
             /\ pc[p] = "locked" => pc'[p] \in {"locked", "marshal"}
             /\ pc[p] = "marshal" =>
                   pc'[p] \in {"marshal", "write"} \/ ends({"marshal"})
             /\ pc[p] = "write" =>
                   pc'[p] \in {"write", "writing"} \/ ends({"write"})
             /\ pc[p] = "writing" =>
                   \/ pc'[p] = "writing"
                   \/ woff[p] < Len(data[p]) /\ ends({"write"})
                   \/ woff[p] = Len(data[p]) /\ ends({"ok", "rename"})
             /\ (pc'[p] = "locked" /\ pc[p] # "locked") => pc[p] = "acquire"
             /\ (pc'[p] = "writing" /\ pc[p] # "writing") => pc[p] = "write"
             /\ (pc[p] = "writing" /\ tmp' # tmp) => flock.excl = p
             /\ (lastSave[p] = None /\ lastSave'[p] = "ok") =>
                   /\ flock.excl = p
                   /\ tmp = [exists |-> TRUE, bytes |-> data[p]]
                   /\ file' = tmp
             /\ (lastSave[p] = None /\ lastSave'[p] = "timeout") =>
                   /\ pc[p] = "acquire"
                   /\ disk' = disk]_vars
    /\ [][tmp' # tmp =>
             \E p \in Procs :
                 flock.excl = p /\ pc[p] \in {"write", "writing"}]_vars
    /\ [][file' # file =>
             \E p \in Procs :
                 /\ flock.excl = p
                 /\ pc[p] = "writing"
                 /\ woff[p] = Len(data[p])
                 /\ tmp.bytes = data[p]]_vars

\* C18 witness: the three ways a Save has ended, at once: instance A's timed
\* out on the lock, instance B's failed at the rename, and the save file is
\* the document of an earlier Save that went through.
C18_Witness ==
    /\ lastSave["A"] = "timeout"
    /\ lastSave["B"] = "rename"
    /\ pc["A"] = "repl"
    /\ pc["B"] = "repl"
    /\ file.exists
    /\ file = committed
    /\ ~tmp.exists

\* the positions inside savePokedexData
InSave == {"acquire", "locked", "marshal", "write", "writing"}

\* C27: no step of a Save, failing or not, changes the collection in memory,
\* so the catch, release or evolve that invoked it stays done; and a Save
\* that returns without error has written the whole collection as it is in
\* memory then, every change since the last successful Save included.
C27_FailedSaveKeepsMutation ==
    /\ [][\A p \in Procs : pc[p] \in InSave => pokedex'[p] = pokedex[p]]_vars
    /\ [][\A p \in Procs :
             (lastSave[p] = None /\ lastSave'[p] = "ok") =>
                /\ file'.exists
                /\ UnmarshalOk(file'.bytes)
                /\ UnmarshalPokedex(file'.bytes) = pokedex'[p]]_vars

\* C27 witness: B's evolve of eevee into pikachu is in memory, the Save it
\* invoked failed at the rename, and the file still holds the collection of
\* the last successful Save, with eevee.
C27_Witness ==
    /\ lastSave["B"] = "rename"
    /\ pc["B"] = "repl"
    /\ DOMAIN pokedex["B"] = {"pikachu"}
    /\ DOMAIN committedMap = {"eevee"}
    /\ file = committed
    /\ changesSinceSync["B"] = 0

(***************************************************************************)
(* API client: properties.                                                 *)
(***************************************************************************)
\* C19: every client fetch looks its URL up in the cache first; a request
\* whose lookup hit never reaches the transport; the transport is called only
\* on a miss, and then the raw response bytes are stored under the URL; so a
\* URL stored no more than ttl ago is not requested from the origin again.
C19_CacheFirst ==
    /\ cpc = "do" =>
          /\ ~chit
          /\ stored[creq.u] = -1 \/ now > stored[creq.u] + ttl
    /\ cpc = "add" => ~chit /\ cbody = origin[creq.u].body
    /\ \A u \in DOMAIN cache : cache[u].val = origin[u].body

Cause(r) == IF r.err = << >> THEN None ELSE r.err[Len(r.err)]

C7_EveryNthMutationSaves ==
    (run.ok /\ pc["A"] = "repl") =>
        /\ run.saves = run.len \div autoSaveInterval["A"]
        /\ changesSinceSync["A"] = run.len % autoSaveInterval["A"]

\* C8: a change recorded with the counter at c, the interval n and the flag
\* e invoked Save if and only if e and c >= n, and left the counter at 0 if
\* it invoked Save and at c + 1 otherwise.
C8_TestDecisionRule ==
    (rec.valid /\ pc["A"] = "repl") =>
        /\ rec.saved <=> (autoSaveEnabled["A"] /\ rec.c >= autoSaveInterval["A"])
        /\ changesSinceSync["A"] = IF rec.saved THEN 0 ELSE rec.c + 1

\* C9: a mutation recorded while auto-save is disabled invokes no Save and
\* leaves the counter one higher, whatever the interval; a mutation recorded
\* with auto-save enabled and the counter at or above the interval invokes
\* Save.
C9_DisabledStillCounts ==
    rec.valid =>
        /\ ~autoSaveEnabled["A"] =>
              ~rec.saved /\ changesSinceSync["A"] = rec.c + 1
        /\ (autoSaveEnabled["A"] /\ rec.c >= autoSaveInterval["A"]) => rec.saved

\* C24: when the Save that the auto-save policy invoked for a recorded
\* change fails, the counter is 0 when the command returns (the reset made at
\* the threshold stands).
C24_FailedPolicySaveLeavesZero ==
    [][(/\ rec.valid
        /\ rec.saved
        /\ lastSave["A"] = None
        /\ lastSave'["A"] \in {"timeout", "marshal", "write", "rename"})
          => (pc'["A"] = "repl" /\ changesSinceSync'["A"] = 0)]_vars

\* C25: when a Save has just returned without error, whoever called it (the
\* policy, the save command, a settings command), the counter is 0.
C25_ZeroAfterFlush ==
    (lastSave["A"] = "ok" /\ pc["A"] = "repl") => changesSinceSync["A"] = 0

(***************************************************************************)
(* Goroutines: properties.                                                 *)
(***************************************************************************)
\* C23: a goroutine that is about to wait for the file lock, or to do the
\* disk I/O of Save or Load (Stat, ReadFile, WriteFile, Rename), holds
\* cfg.mutex neither as a reader nor as the writer.
C23_NoMutexDuringIO ==
    \A g \in Gs : Instr(g).op \in {"io", "flock", "frlock"} => ~HoldsMutex(g)

\* C23 witness: the Save that UpdatePokedexAndSave called is about to write
\* the file, holding the file lock, while the other goroutine holds the
\* write lock.
C23_Witness ==
    /\ gopc["g1"].fn = "save"
    /\ goret["g1"].fn = "catch"
    /\ Instr("g1").op = "io"
    /\ fileLock.excl = "g1"
    /\ mutex.w = "g2"

\* C28: a goroutine about to read the collection, the cursors, the counter
\* or the settings holds cfg.mutex (as a reader or as the writer), and one
\* about to assign any of them holds it as the writer.
C28_AccessUnderLock ==
    \A g \in Gs :
        /\ Instr(g).op \in ReadOps => HoldsMutex(g)
        /\ Instr(g).op \in WriteOps => mutex.w = g

\* C26: with auto-save enabled, once every handler has returned, each
\* recorded change went into exactly one batch of autoSaveInterval changes:
\* the counter holds the changes recorded since the last full batch.
C26_EachChangeOneFlush ==
    (Quiet /\ sync.autoSaveEnabled) =>
        sync.changesSinceSync = tally.changes

\* C29: handlers, Save, Load, the auto-save and the sweep never deadlock.
\* A goroutine about to wait for the file lock or for the cache mutex does
\* not hold cfg.mutex (so the file lock always comes before cfg.mutex), one
\* holding the cache mutex waits for no other lock, a goroutine that runs no
\* handler holds no lock, while a handler is running some running goroutine
\* can take a step, and every handler returns and every sweep ends, so that
\* every lock that is held is released later.
C29_NoDeadlock ==
    /\ [](\A g \in Gs :
            /\ Instr(g).op \in {"flock", "frlock", "clock"} => ~HoldsMutex(g)
            /\ Instr(g).op \in {"flock", "frlock", "lock", "rlock"} => cmu[FgMu] # g
            /\ ~Running(g) => ~HoldsMutex(g) /\ ~HoldsFile(g) /\ cmu[FgMu] # g)
    /\ [](~Quiet => \E g \in Gs : Running(g) /\ ENABLED GoOn(g))
    /\ \A g \in Gs : Running(g) ~> ~Running(g)
    /\ (cmu.cache = "reaper") ~> (cmu.cache # "reaper")

\* C29 witness: a Save holds the file lock and waits for the read lock that
\* the other goroutine holds as the writer, while the sweep holds the
\* Cache's mutex.
C29_Witness ==
    /\ fileLock.excl = "g1"
    /\ Instr("g1").op = "rlock"
    /\ mutex.w = "g2"
    /\ cmu.cache = "reaper"

(***************************************************************************)
(* Names: properties.                                                      *)
(***************************************************************************)
\* lowercase letters, digits and hyphens only, the hyphens between words
Canonical(k) ==
    /\ \A i \in 1..Len(k) : k[i] \in {"a", "e", "-"}
    /\ k # << >> => k[1] # "-" /\ k[Len(k)] # "-"

\* C30: every key of the collection is lowercase and hyphenated and is left
\* as it is by the name normalisation (so no two keys name the same item),
\* and a lookup finds a name exactly when the API format of the name is a key.
C30_KeysCanonical ==
    /\ \A k \in keys \cup savedKeys : Canonical(k) /\ ConvertToAPIFormat(k) = k
    /\ \A k1, k2 \in keys : ConvertToAPIFormat(k1) = ConvertToAPIFormat(k2) => k1 = k2
    /\ looked.done =>
          /\ looked.exists <=> (ConvertToAPIFormat(looked.arg) \in keys)
          /\ looked.exists => looked.key = ConvertToAPIFormat(looked.arg)

\* C30 witness: the key "a-e" is in the collection and in the file, and a
\* lookup typed with a capital and an accent found it.
C30_Witness ==
    /\ <<"a", "-", "e">> \in keys
    /\ <<"a", "-", "e">> \in savedKeys
    /\ looked.done
    /\ looked.exists
    /\ looked.arg = <<"a", "-", "e_acute">>
    /\ looked.key = <<"a", "-", "e">>

(***************************************************************************)
(* The end of a session and the next start: properties.                    *)
(***************************************************************************)
\* what loadPokedexData leaves in cfg.pokedex at the next start, given the
\* save file as it is now: the decoded collection, or main's empty one when
\* there is no file or json.Unmarshal rejects it
NextStartLoads ==
    IF file.exists /\ UnmarshalOk(file.bytes)
    THEN UnmarshalPokedex(file.bytes)
    ELSE EmptyPokedex

\* C31: when the loop ends normally (the exit command, or end of input) and
\* no save of this session has just failed, the collection is on disk: the
\* next start loads the collection the process ended with.
C31_TerminationFlushes ==
    [][(/\ pc["A"] \in {"repl", "exiting"}
        /\ pc'["A"] = "off"
        /\ lastSave["A"] \notin {"timeout", "marshal", "write", "rename"})
          => NextStartLoads = pokedex["A"]]_vars

\* C32: the location state is saved with the Pokedex: when a start has just
\* loaded the document that the last successful Save left on disk, the
\* cursors of the process (next page, previous page, map viewed) are the
\* cursors the saving process had.
C32_CursorsRestored ==
    [][(/\ lastLoad["A"] = None
        /\ lastLoad'["A"] = "ok"
        /\ file = committed)
          => cursor'["A"] = committedCursor]_vars

\* C34: a process whose Load at startup failed (decode error, read error or
\* lock timeout) never replaces the document at the save path: no Save it
\* runs later, for a mutation or for exit, renames its file over it.
C34_UnloadedDocumentKept ==
    [][(/\ startLoad = "failed"
        /\ pc["A"] = "writing"
        /\ file.exists) => disk'[SaveFilePath] = file]_vars

(***************************************************************************)
(* Response cache: the sweep.                                              *)
(***************************************************************************)
\* C35: a sweep at time t removes exactly the entries created strictly
\* earlier than t - ttl and leaves every other entry as it was: an entry of
\* age ttl or less is never removed.
C35_SweepRemovesExactlyExpired ==
    [][(rpc = "reaping" /\ rpc' = "sleep") =>
          /\ DOMAIN cache' = {k \in DOMAIN cache : now - cache[k].createdAt <= ttl}
          /\ \A k \in DOMAIN cache' : cache'[k] = cache[k]]_vars

\* C35 witness: the sweep of this instant has run; it kept an entry of age
\* exactly ttl and removed one that was older (and that the sweep before it
\* had kept).
C35_Witness ==
    /\ rpc = "sleep"
    /\ now = nextTick - ttl
    /\ \E k, k2 \in CacheKeys :
          /\ k \in DOMAIN cache
          /\ cache[k].createdAt = now - ttl
          /\ k2 \notin DOMAIN cache
          /\ hist[k2].val # None
          /\ hist[k2].at < now - ttl
          /\ hist[k2].at >= now - 2 * ttl

\* C36: after a Load that returned no error the collection is a usable
\* mapping, never the nil map on which an insertion fails.
C36_LoadedCollectionUsable ==
    \A p \in Procs : lastLoad[p] = "ok" => ~pokedexNil[p]

(***************************************************************************)
(* Settings: properties.                                                   *)
(***************************************************************************)
\* C37: the auto-save interval is at least 1 in every state.  It is 1 from
\* the start of the process to the end of its Load; a command that returns
\* to the prompt without calling Save (a rejected saveinterval among them)
\* leaves it as it was; the only step of a running process that changes it
\* is an accepted saveinterval, which goes on to save and changes no other
\* setting.
C37_IntervalAtLeastOne ==
    /\ [](\A p \in Procs : autoSaveInterval[p] >= 1)
    /\ [](\A p \in Procs :
            (pc[p] \in {"off", "stat", "racquire", "read"} \/ lastLoad[p] # None)
               => autoSaveInterval[p] = 1)
    /\ [][\A p \in Procs :
            autoSaveInterval'[p] # autoSaveInterval[p] =>
               \/ pc'[p] \in {"off", "stat"} /\ autoSaveInterval'[p] = 1
               \/ /\ pc[p] = "repl"
                  /\ pc'[p] = "acquire"
                  /\ ret'[p] = "cmd"
                  /\ autoSaveEnabled'[p] = autoSaveEnabled[p]
                  /\ pokedex'[p] = pokedex[p]
                  /\ changesSinceSync'[p] = changesSinceSync[p]]_vars

\* C37 witness: the interval was set to MaxInterval and saved; the command
\* that has just returned called no Save, recorded no change and left the
\* interval where it was: a saveinterval with a rejected argument.
C37_Witness ==
    /\ pc["A"] = "repl"
    /\ autoSaveInterval["A"] = MaxInterval
    /\ MaxInterval > 1
    /\ lastSave["A"] = None
    /\ lastLoad["A"] = None
    /\ rec = NoRecorded
    /\ committed.exists

(***************************************************************************)
(* API client: what a failed fetch leaves in the cache.                    *)
(***************************************************************************)
\* C38: the step by which a fetch returns an error (the transport failed,
\* the status was not a success, the body could not be decoded) leaves the
\* cache as it was, and every body the cache holds is one a fetch decodes:
\* no later fetch of the same URL fails on a cached body.
C38_FailedFetchStoresNothing ==
    /\ [][(cpc # "idle" /\ cpc' = "idle" /\ cres'.err # << >>) => cache' = cache]_vars
    /\ [](\A u \in DOMAIN cache : cache[u].val.json)

(***************************************************************************)
(* commandEvolve and savePokedexData: properties.                          *)
(***************************************************************************)
\* Every evolve replaces a species by its evolved form, so a collection that
\* reflects each evolve entirely or not at all holds, of a species owned at
\* the start and of its evolved form, exactly one.
Whole(m) ==
    /\ ("pikachu" \in DOMAIN m) # ("raichu" \in DOMAIN m)
    /\ ("eevee" \in DOMAIN m) # ("vaporeon" \in DOMAIN m)

\* C33: the document a Save serialises is the collection as it was at one
\* moment: each concurrent evolve (delete, then insert, under the write
\* lock) is in it entirely or not at all, and json.Marshal never ranges over
\* the map while a writer is between its Lock and its Unlock.
C33_SaveSerialisesSnapshot ==
    /\ \A g \in Gs : (epc[g] = "marshal" /\ eloc[g].todo = {}) => Whole(eloc[g].doc)
    /\ ~EvoRace

\* C39: a successful evolve of x into y leaves, when it unlocks, the
\* collection it found when it locked without x and with y, every other
\* entry as it was; while a goroutine holds the read lock no evolve is
\* between its delete and its insert (the collection is whole); and an
\* evolve that fails (not owned, no evolution, no valid selection, fetch
\* error) returns before its Lock and leaves the collection and the
\* counter as they are.
C39_EvolveAtomic ==
    /\ [][\A g \in Gs :
            (epc[g] = "insert" /\ epc'[g] # "insert") =>
               LET x == eloc[g].x
                   y == eloc[g].y
                   before == eloc[g].before
               IN /\ DOMAIN owned' = (DOMAIN before \ {x}) \cup {y}
                  /\ owned'[y].name = y
                  /\ \A k \in DOMAIN owned' \ {y} : owned'[k] = before[k]
                  /\ mutex.w = g
                  /\ mutex'.w = None]_vars
    /\ [](mutex.r # {} => (Whole(owned) /\ \A g \in Gs : epc[g] # "insert"))
    /\ [][\A g \in Gs :
            (/\ epc[g] # "idle"
             /\ epc'[g] = "idle"
             /\ eloc'[g].res \in {"notowned", "noevolution", "selection", "fetch"}) =>
               /\ epc[g] \in {"lookup", "fetch"}
               /\ owned' = owned
               /\ sync' = sync]_vars

\* C39 witness: g1 evolved pikachu into raichu and eevee is as it was; the
\* evolve of pikachu that g2 ran after it failed, pikachu not being owned.
C39_Witness ==
    /\ epc["g1"] = "idle"
    /\ eloc["g1"].fn = "evolve"
    /\ eloc["g1"].res = "ok"
    /\ eloc["g1"].x = "pikachu"
    /\ DOMAIN owned = {"eevee", "raichu"}
    /\ owned["eevee"] = [name |-> "eevee", height |-> 1]
    /\ epc["g2"] = "idle"
    /\ eloc["g2"].res = "notowned"
    /\ eloc["g2"].x = "pikachu"

Init == InitCache /\ InitStore /\ InitClient /\ InitNames /\ InitGo /\ InitEvo
\* a client built from part_026 whose origin answers every request well
HealthyOrigin ==
    [u \in URLsOf("part_026") |->
        IF u = PokemonURL THEN Answer(200, PokemonBody)
        ELSE IF u = LocationURL THEN Answer(200, ListBody)
        ELSE Answer(200, SpeciesBody)]
\* main's settings: auto-save enabled, after every change
DefaultSync == sync.autoSaveEnabled /\ sync.autoSaveInterval = 1

InitOne == Init /\ impl = "part_026" /\ origin = HealthyOrigin /\ DefaultSync

SpecCache == InitOne /\ [][NextCache]_vars

\* main: the cache is the one inside the client NewClient built
InitMain == InitOne /\ viaClient /\ ttl = 1

SpecStore == InitMain /\ [][NextStore]_vars

SpecSync == InitMain /\ [][NextSync]_vars

SpecDisk == InitMain /\ [][NextDisk]_vars

\* Instance A's calls keep running; instance B may stop at any step, also
\* while it holds the lock.
SpecWedged == InitMain /\ [][NextDisk]_vars /\ WF_vars(CallStep("A") /\ UNCHANGED <<cacheVars, clientVars, nameVars, goVars>>)

SpecDamaged == InitMain /\ [][NextDamaged]_vars

\* the REPL's client: main builds it with pokeapi.NewClient
InitFetch == Init /\ viaClient /\ DefaultSync
SpecClient == InitFetch /\ [][NextClient]_vars
SpecNames == InitMain /\ [][NextNames]_vars
\* the goroutines, under every setting commandAutoSave and
\* commandSaveInterval can leave
InitSet == Init /\ impl = "part_026" /\ origin = HealthyOrigin /\ viaClient /\ ttl = 1
SpecGo == InitSet /\ [][NextGo]_vars
\* the scheduler runs every goroutine that can run, sync.Mutex and
\* sync.RWMutex hand the lock to a goroutine that keeps waiting for it, and
\* reap returns
GoFair ==
    /\ \A g \in Gs : SF_vars(GoOn(g) /\ UNCHANGED <<cacheVars, storeVars, clientVars, nameVars, evoVars>>)
    /\ WF_vars(SweepUnlock /\ UNCHANGED <<cacheVars, storeVars, clientVars, nameVars, evoVars>>)
SpecGoFair == InitMain /\ [][NextGo]_vars /\ GoFair
SpecEvolve == InitSet /\ [][NextEvolve]_vars

SpecForeign == InitMain /\ [][NextForeign]_vars

SpecSettings == InitMain /\ [][NextSettings]_vars

Next == NextCache \/ NextNames \/ NextGo \/ NextClient \/ NextStore \/ NextSync \/ NextDamaged
           \/ NextForeign \/ NextSettings \/ NextEvolve

Spec == Init /\ [][Next]_vars

==========================================================================
